---- MODULE Spec2Model ----
(***************************************************************************)
(* A model of the rate limiter of boulder's ratelimits package:            *)
(*   src/ratelimits/limiter.go       the Limiter (Check, Spend, BatchSpend, *)
(*                                   Refund, BatchRefund, Reset, getLimit)  *)
(*   src/ratelimits/source_redis.go  the source (Get, Set, BatchGet, ...)   *)
(* The GCRA kernel (maybeSpend, maybeRefund) and the limit type are used    *)
(* by limiter.go but their files are not part of the sources at hand; they  *)
(* are modelled from section 4.1 and section 3 of the specification.        *)
(*                                                                          *)
(* Time is an integer number of clock units (the code's UnixNano values).   *)
(* Every source call of a Limiter method is one atomic step (the moment     *)
(* the store serves it); the kernel evaluation between the read and the     *)
(* write is a step of its own, so the clock may advance and, when calls     *)
(* overlap, other calls may act in between.                                 *)
(***************************************************************************)
EXTENDS Integers, Sequences, FiniteSets, TLC

VARIABLES
    store,  \* the source: bucket key -> stored TAT; a key not in DOMAIN does not exist
    now,    \* the clock (l.clk.Now())
    calls,  \* per caller: the Limiter call in flight or just completed
    last,   \* the last Check returned, while nothing has happened since
    conc,   \* whether calls of different callers may overlap
    spent   \* when kept: key -> clock value -> the cost granted to the key then

vars == <<store, now, calls, last, conc, spent>>

----------------------------------------------------------------------------
(* Bounds *)

\* The clock runs from 0 to MaxNow.
MaxNow == 2

\* A batch holds at most MaxBatch buckets.
MaxBatch == 2

----------------------------------------------------------------------------
(* Program constants *)

\* time.Time{}: the zero time, which is before every clock value.
ZeroTime == -1

\* math.MaxInt64, the initial minRemaining of a batch. TLC's integers are 32
\* bits wide; the value is only ever compared with remaining capacities, so
\* the largest 32-bit integer stands for it.
MaxInt64 == 2147483647

Min2(a, b) == IF a < b THEN a ELSE b

Max2(a, b) == IF a > b THEN a ELSE b

----------------------------------------------------------------------------
(* Configuration: the limits the Limiter was constructed with.             *)

DefaultName == "NewOrdersPerAccount"

DisabledName == "CertificatesPerDomain"

ValidNames == {DefaultName, DisabledName}

\* A Name value outside the enum.
InvalidName == "Unknown"

\* limit{Burst, Count, Period, isOverride}
Limit(burst, count, period, override) ==
    [Burst |-> burst, Count |-> count, Period |-> period, isOverride |-> override]

\* l.defaults: limit name -> limit. DisabledName has no default.
defaults == [n \in {DefaultName} |-> Limit(2, 2, 2, FALSE)]

OverrideKey == "NewOrdersPerAccount:2"

\* l.overrides: bucket key -> limit.
overrides == [k \in {OverrideKey} |-> Limit(2, 1, 2, TRUE)]

\* The buckets callers present: (name, key) pairs as the bucket constructors
\* build them, the key being "<name>:<id>".
Buckets ==
    { [name |-> DefaultName, key |-> "NewOrdersPerAccount:1"],
      [name |-> DefaultName, key |-> OverrideKey],
      [name |-> DisabledName, key |-> "CertificatesPerDomain:a"],
      [name |-> InvalidName, key |-> OverrideKey] }

Keys == {b.key : b \in Buckets}

Limits == {defaults[n] : n \in DOMAIN defaults} \cup {overrides[k] : k \in DOMAIN overrides}

\* The largest configured burst.
MaxBurst == CHOOSE b \in {rl.Burst : rl \in Limits} : \A rl \in Limits : rl.Burst <= b

\* Costs callers pass: negative, zero, within every burst, above every burst.
Costs == (0 - 1)..(MaxBurst + 1)

BucketsWithCost == {[name |-> b.name, key |-> b.key, cost |-> c] : b \in Buckets, c \in Costs}

\* The buckets callers put in batches. Which bucket carries a cost does not
\* matter where the code does not look at the bucket: a cost of zero or less is
\* rejected before any bucket is resolved, and a bucket of a disabled limit or
\* of an invalid name is skipped or refused whatever its (positive) cost.
BatchEntries ==
    {b \in BucketsWithCost :
        /\ b.cost <= 0 => b.key = "NewOrdersPerAccount:1"
        /\ b.name \in {DisabledName, InvalidName} => b.cost = 1}

RECURSIVE SeqsUpTo(_, _)
SeqsUpTo(S, n) ==
    IF n = 0 THEN {<<>>}
    ELSE LET shorter == SeqsUpTo(S, n - 1)
         IN  shorter \cup {Append(q, x) : q \in shorter, x \in S}

\* The batches callers pass: up to MaxBatch buckets, in any order, a key
\* possibly more than once.
Batches == SeqsUpTo(BatchEntries, MaxBatch)

Procs == {"c1", "c2"}

----------------------------------------------------------------------------
(* The limit type and the GCRA kernel                                       *)

\* emission_interval = period / count
emissionInterval(rl) == rl.Period \div rl.Count

\* burst * emission_interval: how far in the future a TAT may lie.
burstOffset(rl) == rl.Burst * emissionInterval(rl)

Clamp(x, lo, hi) == Max2(lo, Min2(x, hi))

MkDecision(allowed, remaining, retryIn, resetIn, newTAT) ==
    [nil |-> FALSE, Allowed |-> allowed, Remaining |-> remaining,
     RetryIn |-> retryIn, ResetIn |-> resetIn, newTAT |-> newTAT]

\* A nil *Decision.
NilDecision ==
    [nil |-> TRUE, Allowed |-> FALSE, Remaining |-> 0,
     RetryIn |-> 0, ResetIn |-> 0, newTAT |-> ZeroTime]

\* The decision for a disabled limit refusing the request.
deniedLimitDecision == MkDecision(FALSE, 0, 0, 0, ZeroTime)

\* disabledLimitDecision = &Decision{true, 0, 0, 0, time.Time{}}
disabledLimitDecision == MkDecision(TRUE, 0, 0, 0, ZeroTime)

\* Spend semantics of the kernel; clk is the clock value the kernel reads.
maybeSpend(clk, rl, tat, cost) ==
    LET increment    == cost * emissionInterval(rl)
        effectiveTAT == Max2(tat, clk)
        candidateTAT == effectiveTAT + increment
        thresholdTAT == clk + burstOffset(rl)
    IN  IF candidateTAT > thresholdTAT
        THEN MkDecision(FALSE,
                        Clamp((thresholdTAT - effectiveTAT) \div emissionInterval(rl), 0, rl.Burst),
                        candidateTAT - thresholdTAT,
                        Max2(0, effectiveTAT - clk),
                        tat)
        ELSE MkDecision(TRUE,
                        Clamp((thresholdTAT - candidateTAT) \div emissionInterval(rl), 0, rl.Burst),
                        0,
                        Max2(0, candidateTAT - clk),
                        candidateTAT)

\* Refund semantics of the kernel.
maybeRefund(clk, rl, tat, cost) ==
    LET refund       == cost * emissionInterval(rl)
        candidateTAT == Max2(clk, tat - refund)
        thresholdTAT == clk + burstOffset(rl)
    IN  IF tat <= clk
        THEN MkDecision(FALSE,
                        Clamp((thresholdTAT - tat) \div emissionInterval(rl), 0, rl.Burst),
                        0,
                        Max2(0, tat - clk),
                        tat)
        ELSE MkDecision(TRUE,
                        Clamp((thresholdTAT - candidateTAT) \div emissionInterval(rl), 0, rl.Burst),
                        0,
                        Max2(0, candidateTAT - clk),
                        candidateTAT)

----------------------------------------------------------------------------
(* The source                                                               *)

EmptyMap == [k \in {} |-> 0]

\* source.Get: the stored TAT, or ErrBucketNotFound.
Get(s, bucketKey) ==
    IF bucketKey \in DOMAIN s
    THEN [found |-> TRUE, tat |-> s[bucketKey]]
    ELSE [found |-> FALSE, tat |-> ZeroTime]

\* A Set that writes only keys that do not exist yet.
SetNX(s, bucketKey, tat) ==
    IF bucketKey \in DOMAIN s THEN s
    ELSE [k \in DOMAIN s \cup {bucketKey} |-> IF k = bucketKey THEN tat ELSE s[k]]

\* source.Set: unconditional overwrite.
Set(s, bucketKey, tat) ==
    [k \in DOMAIN s \cup {bucketKey} |-> IF k = bucketKey THEN tat ELSE s[k]]

\* The errors a Redis call returns. An error is the sequence of the kinds of
\* the errors of its Unwrap chain, outermost first: a sentinel or typed error
\* alone, or one wrapped ("wrap", as fmt.Errorf with %w does). redis.Nil and
\* "redis.Error" (an error reply of the server) are of type proto.RedisError,
\* which implements redis.Error; "net.Timeout" and "net.Error" are net.Errors
\* whose Timeout() is true and false. The empty sequence is the nil error.
ErrKinds ==
    {"redis.Nil", "context.DeadlineExceeded", "context.Canceled",
     "net.Timeout", "net.Error", "redis.Error", "other"}

NilErr == <<>>

Errs == {<<k>> : k \in ErrKinds} \cup {<<"wrap", k>> : k \in ErrKinds}

\* errors.Is(err, target): some error of err's chain equals target; with a
\* nil err or a nil target, whether the two are equal.
errorsIs(err, target) ==
    IF err = NilErr \/ target = NilErr THEN err = target
    ELSE \E i \in 1..Len(err) : SubSeq(err, i, Len(err)) = target

\* errors.As(err, &netErr): the first error of err's chain that implements
\* net.Error, context.DeadlineExceeded being one (it has Timeout and
\* Temporary); "none" when there is none.
errorsAsNetError(err) ==
    LET net == {i \in 1..Len(err) :
                   err[i] \in {"net.Timeout", "net.Error", "context.DeadlineExceeded"}}
    IN  IF net = {} THEN "none"
        ELSE err[CHOOSE i \in net : \A j \in net : i <= j]

\* netErr.Timeout()
Timeout(netErr) == netErr \in {"net.Timeout", "context.DeadlineExceeded"}

\* resultForError (source_redis.go 47-69). Its first test is
\* errors.Is(redis.Nil, err), redis.Nil in the place of the error and err in
\* that of the target; its last is errors.Is(err, redisErr) with redisErr a
\* redis.Error variable that is never assigned, a nil target.
resultForError(err) ==
    IF errorsIs(<<"redis.Nil">>, err) THEN "notFound"
    ELSE IF errorsIs(err, <<"context.DeadlineExceeded">>) THEN "deadlineExceeded"
    ELSE IF errorsIs(err, <<"context.Canceled">>) THEN "canceled"
    ELSE IF errorsAsNetError(err) /= "none" /\ Timeout(errorsAsNetError(err)) THEN "timeout"
    ELSE IF errorsIs(err, NilErr) THEN "redisError"
    ELSE "failed"

\* The errors a Get fails with: those that are not redis.Nil, which Get and
\* BatchGet take as the key not existing (source_redis.go 113, 149).
GetErrs == {e \in Errs : ~errorsIs(e, <<"redis.Nil">>)}

\* The results of the pipelined Gets of BatchGet, one per key of the list
\* (source_redis.go 134-137): the stored TAT, redis.Nil for a key that does
\* not exist, and an error for the Gets of cmdErrs, those that fail.
PipeResults(s, bucketKeys, cmdErrs) ==
    [i \in 1..Len(bucketKeys) |->
        IF i \in cmdErrs THEN [err |-> "SourceError", val |-> ZeroTime]
        ELSE IF bucketKeys[i] \notin DOMAIN s THEN [err |-> "redis.Nil", val |-> ZeroTime]
        ELSE [err |-> "nil", val |-> s[bucketKeys[i]]]]

\* The error of the first result, in the order of the list, that is in
\* errs; "nil" when there is none.
FirstErr(results, errs) ==
    LET bad == {i \in 1..Len(results) : results[i].err \in errs}
    IN  IF bad = {} THEN "nil"
        ELSE results[CHOOSE i \in bad : \A j \in bad : i <= j].err

\* A BatchGet that takes the redis.Nil pipe.Exec returns for a missing key
\* as a failure of the batch.
BatchGetStrict(s, bucketKeys, cmdErrs) ==
    LET results == PipeResults(s, bucketKeys, cmdErrs)
        execErr == FirstErr(results, {"redis.Nil", "SourceError"})
        found   == {i \in 1..Len(results) : results[i].err = "nil"}
    IN  IF execErr /= "nil"
        THEN [tats |-> EmptyMap, err |-> execErr]
        ELSE [tats |-> [k \in {bucketKeys[i] : i \in found} |->
                          results[CHOOSE i \in found : bucketKeys[i] = k].val],
              err |-> "nil"]

\* The result labels under which BatchGet observes its latency for the
\* errors it gets, e being the error of the Gets that fail: for the error of
\* pipe.Exec whatever it is (source_redis.go 139-140), and, when that was
\* redis.Nil, for the first result of the loop that failed (154).
BatchGetResults(s, bucketKeys, cmdErrs, e) ==
    LET results == PipeResults(s, bucketKeys, cmdErrs)
        execErr == FirstErr(results, {"redis.Nil", "SourceError"})
        loopErr == FirstErr(results, {"SourceError"})
    IN  IF execErr = "nil" THEN <<>>
        ELSE IF execErr = "SourceError" THEN <<resultForError(e)>>
        ELSE <<resultForError(<<"redis.Nil">>)>>
                \o (IF loopErr /= "nil" THEN <<resultForError(e)>> ELSE <<>>)

\* source.BatchGet (source_redis.go 131-162). pipe.Exec returns the error of
\* the first Get that did not succeed, redis.Nil included; BatchGet goes on
\* when that is redis.Nil, and then returns the first error of a result that
\* is not redis.Nil, if there is one, and otherwise the TATs of the keys that
\* exist, missing keys left out.
BatchGet(s, bucketKeys, cmdErrs) ==
    LET results == PipeResults(s, bucketKeys, cmdErrs)
        execErr == FirstErr(results, {"redis.Nil", "SourceError"})
        loopErr == FirstErr(results, {"SourceError"})
        found   == {i \in 1..Len(results) : results[i].err = "nil"}
    IN  IF execErr \notin {"nil", "redis.Nil"}
        THEN [tats |-> EmptyMap, err |-> execErr]
        ELSE IF loopErr /= "nil"
        THEN [tats |-> EmptyMap, err |-> loopErr]
        ELSE [tats |-> [k \in {bucketKeys[i] : i \in found} |->
                          results[CHOOSE i \in found : bucketKeys[i] = k].val],
              err |-> "nil"]

\* source.BatchSet: every key of the map is overwritten.
BatchSet(s, tats) ==
    [k \in DOMAIN s \cup DOMAIN tats |-> IF k \in DOMAIN tats THEN tats[k] ELSE s[k]]

\* A Delete that removes every bucket of the limit the key belongs to.
DeleteByName(s, bucketKey) ==
    [k \in {j \in DOMAIN s : \A b \in Buckets : b.key = bucketKey =>
                                 \A b2 \in Buckets : b2.key = j => b2.name /= b.name} |-> s[k]]

\* source.Delete: the key is removed, whether or not it existed.
Delete(s, bucketKey) ==
    [k \in DOMAIN s \ {bucketKey} |-> s[k]]

----------------------------------------------------------------------------
(* The Limiter                                                              *)

\* getLimit taking an override as the limit of every bucket of its name.
getLimitOverrideByName(name, bucketKey) ==
    LET named == {k \in DOMAIN overrides : \E b \in Buckets : b.key = k /\ b.name = name}
    IN  IF name \notin ValidNames
        THEN [err |-> "ErrInvalidName", limit |-> Limit(0, 0, 0, FALSE)]
        ELSE IF bucketKey /= "" /\ named /= {}
        THEN [err |-> "nil", limit |-> overrides[CHOOSE k \in named : TRUE]]
        ELSE IF name \in DOMAIN defaults
        THEN [err |-> "nil", limit |-> defaults[name]]
        ELSE [err |-> "errLimitDisabled", limit |-> Limit(0, 0, 0, FALSE)]

\* getLimit looking for the override before it looks at the name.
getLimitOverrideFirst(name, bucketKey) ==
    IF bucketKey /= "" /\ bucketKey \in DOMAIN overrides
    THEN [err |-> "nil", limit |-> overrides[bucketKey]]
    ELSE IF name \notin ValidNames
    THEN [err |-> "ErrInvalidName", limit |-> Limit(0, 0, 0, FALSE)]
    ELSE IF name \in DOMAIN defaults
    THEN [err |-> "nil", limit |-> defaults[name]]
    ELSE [err |-> "errLimitDisabled", limit |-> Limit(0, 0, 0, FALSE)]

\* Limiter.getLimit
getLimit(name, bucketKey) ==
    IF name \notin ValidNames
    THEN [err |-> "ErrInvalidName", limit |-> Limit(0, 0, 0, FALSE)]
    ELSE IF bucketKey /= "" /\ bucketKey \in DOMAIN overrides
    THEN [err |-> "nil", limit |-> overrides[bucketKey]]
    ELSE IF name \in DOMAIN defaults
    THEN [err |-> "nil", limit |-> defaults[name]]
    ELSE [err |-> "errLimitDisabled", limit |-> Limit(0, 0, 0, FALSE)]

\* limit{}, nil: no limit resolved.
NoLimit == [err |-> "nil", limit |-> Limit(0, 0, 0, FALSE)]

\* A caller with no call yet. gl is what getLimit returned to a single-bucket
\* call; gets, sets and dels count the source calls issued; failed tells that
\* a source call returned an error other than ErrBucketNotFound; canceled
\* tells that the caller's context is canceled, cancelAt where the call was
\* when that happened (or when its deadline passed), expired that the
\* deadline of the caller's context has passed, detached that the call
\* has replaced its context by context.WithoutCancel of it, and pre is the
\* store as the call's Set or BatchSet found it. afterReset counts the
\* Resets of the call's key that returned without error right before the
\* call, nothing but the clock having moved since (recorded when calls do
\* not overlap). deferred tells that the call has registered the deferred
\* function that observes its spend latency, status and limitsForMetrics are
\* the locals of these names that function reads, lat is what the call has
\* observed in the spendLatency histogram (the labels of each observation)
\* and gauge what it has set in the overrideUsageGauge. cmdErrs holds the
\* positions of the keys whose Get failed in the pipeline of the call's
\* BatchGet. In a call made on the source itself, srcErr is the error the
\* call's Redis command returned and results holds the result labels under
\* which the source has observed the latency of the call.
IdleCall ==
    [pc |-> "idle", op |-> "none", buckets |-> <<>>, read |-> FALSE, tats |-> EmptyMap,
     evalNow |-> ZeroTime, d |-> NilDecision, err |-> "nil",
     newTATs |-> EmptyMap, sets |-> 0, dels |-> 0, store0 |-> EmptyMap,
     prev |-> NilDecision, prevNow |-> ZeroTime,
     gl |-> NoLimit, gets |-> 0, failed |-> FALSE, canceled |-> FALSE, cancelAt |-> "",
     detached |-> FALSE, expired |-> FALSE, pre |-> EmptyMap, afterReset |-> 0,
     deferred |-> FALSE, status |-> "", limitsForMetrics |-> <<>>, lat |-> <<>>, gauge |-> <<>>,
     cmdErrs |-> {}, srcErr |-> NilErr, results |-> <<>>,
     afterSpend |-> [at |-> ZeroTime, tats |-> EmptyMap]]

\* No call remembered.
NoLast ==
    [op |-> "none", buckets |-> <<>>, d |-> NilDecision, now |-> ZeroTime, resets |-> 0,
     tats |-> EmptyMap]

\* The most Resets in a row that are counted.
MaxResets == 2

\* The record of a call that has just been entered. A Check that repeats the
\* last returned Check carries that one's decision along. store0 is the store
\* as the call found it, recorded when calls do not overlap. A Refund of the
\* bucket and cost of the allowed Spend that has just returned carries in
\* afterSpend the clock value of that Spend and the TATs it read.
NewCall(op, buckets) ==
    [IdleCall EXCEPT !.pc = "start", !.op = op, !.buckets = buckets,
                     !.store0 = IF conc THEN EmptyMap ELSE store,
                     !.prev = IF op = "Check" /\ last.op = "Check" /\ last.buckets = buckets
                              THEN last.d ELSE NilDecision,
                     !.prevNow = IF op = "Check" /\ last.op = "Check" /\ last.buckets = buckets
                                 THEN last.now ELSE ZeroTime,
                     !.afterReset = IF /\ ~conc /\ last.op = "Reset" /\ Len(buckets) = 1
                                       /\ buckets[1].key = last.buckets[1].key
                                    THEN last.resets ELSE 0,
                     !.afterSpend = IF /\ ~conc /\ op = "Refund" /\ last.op = "Spend"
                                       /\ last.buckets = buckets
                                    THEN [at |-> last.now, tats |-> last.tats]
                                    ELSE IdleCall.afterSpend]

\* The limit names in the order slices.Sort puts them in.
NameOrder == <<"CertificatesPerDomain", "NewOrdersPerAccount", "Unknown">>

\* slices.Sort(limitsForMetrics): the names of the slice in sorted order,
\* each as often as the slice holds it.
RECURSIVE SortNames(_, _)
SortNames(names, i) ==
    IF i > Len(NameOrder) THEN <<>>
    ELSE SelectSeq(names, LAMBDA n : n = NameOrder[i]) \o SortNames(names, i + 1)

\* status = s, in a call that has declared status.
SetStatus(c, s) == IF c.deferred THEN [c EXCEPT !.status = s] ELSE c

\* The deferred function of Spend and BatchSpend runs as the call returns
\* (limiter.go 189-191, 320-325): one observation of the spend latency,
\* labelled with the sorted limit names, joined, and the status.
RunDeferred(c) ==
    IF c.deferred
    THEN [c EXCEPT !.deferred = FALSE,
                   !.lat = Append(@, [limit |-> SortNames(c.limitsForMetrics, 1),
                                      decision |-> c.status])]
    ELSE c

\* return d, nil
ReturnD(c, d) == RunDeferred([c EXCEPT !.pc = "done", !.d = d, !.err = "nil"])

\* return nil, err
ReturnErr(c, err) == RunDeferred([c EXCEPT !.pc = "done", !.d = NilDecision, !.err = err])

\* The call going on with the caller's context, cancellation included.
KeepCancel(c) == c

\* ctx = context.WithoutCancel(ctx): from here on the call's source calls do
\* not see the caller's cancellation. The context WithoutCancel returns has
\* no Done channel, no Err and no Deadline.
WithoutCancel(c) == [c EXCEPT !.detached = TRUE]

\* Whether the context call c passes to the source carries the deadline of
\* the caller's context.
CtxHasDeadline(c) == ~c.detached

\* ctx.Err() of the context call c passes to the source.
CtxErr(c) ==
    IF c.canceled /\ ~c.detached THEN "context.Canceled"
    ELSE IF c.expired /\ CtxHasDeadline(c) THEN "context.DeadlineExceeded"
    ELSE "nil"

\* The context call c passes to the source is done: the source call fails
\* with its error.
CtxDone(c) == CtxErr(c) /= "nil"

\* A source read of call c returned err (not ErrBucketNotFound): the call
\* returns nil and the error (limiter.go 152-156, 197-207, 258-260, 374-376,
\* 412-414).
ReadFailed(c, err) == [ReturnErr(c, err) EXCEPT !.gets = @ + 1, !.failed = TRUE]

\* A source write of call c returned err: Refund returns its decision
\* together with the error (limiter.go 382), Reset the error, the others nil
\* and the error (limiter.go 224-227, 329-332, 459-462, 493-496).
WriteFailed(c, err) ==
    IF c.op = "Refund"
    THEN [c EXCEPT !.pc = "done", !.err = err, !.sets = @ + 1, !.failed = TRUE]
    ELSE IF c.op = "Reset"
    THEN [ReturnErr(c, err) EXCEPT !.dels = @ + 1, !.failed = TRUE]
    ELSE [ReturnErr(c, err) EXCEPT !.sets = @ + 1, !.failed = TRUE]

\* The Set or BatchSet of call c returned nil: the call returns its
\* decision. Spend sets status to Allowed after the Set of an existing bucket
\* (limiter.go 228), which it issues only when allowed, and after initialize
\* when the decision is allowed (204-206); BatchSpend sets it after the
\* BatchSet (334).
WriteServed(c) ==
    RunDeferred(SetStatus([c EXCEPT !.pc = "done", !.sets = @ + 1, !.pre = store],
                          IF c.op = "BatchSpend" \/ c.d.Allowed THEN "allowed" ELSE c.status))

\* The buckets of the calls that are let overlap with other calls: one and
\* the same bucket, with a cost of one.
OverlapBuckets ==
    {b \in BucketsWithCost : b.key = "NewOrdersPerAccount:1" /\ b.cost = 1}

\* The calls that are let overlap: the calls that write, on those buckets,
\* their caller's context neither canceled nor expired.
Overlapping(c) ==
    /\ ~c.canceled
    /\ ~c.expired
    /\ c.op \in {"Spend", "Refund", "Reset", "BatchSpend", "BatchRefund"}
    /\ Len(c.buckets) = 1
    /\ c.buckets[1].key = "NewOrdersPerAccount:1"
    /\ c.op /= "Reset" => c.buckets[1] \in OverlapBuckets

\* The inputs with which caller p may enter a call: any of `all` when nobody
\* is in a call (of two idle callers c1 is the one to enter: which of them
\* does makes no difference); when calls may overlap and the other caller is
\* in a call of the overlapping kind, those of `over`.
Inputs(p, all, over) ==
    IF calls[p].pc /= "idle" THEN {}
    ELSE IF \A q \in Procs : calls[q].pc = "idle" THEN (IF p = "c1" THEN all ELSE {})
    ELSE IF conc /\ \A q \in Procs \ {p} : calls[q].pc /= "idle" => Overlapping(calls[q])
    THEN over
    ELSE {}

\* Check refusing a cost of zero, as Spend does.
CheckEnterPositiveCost(bucket) ==
    LET gl == getLimit(bucket.name, bucket.key)
        n  == [NewCall("Check", <<bucket>>) EXCEPT !.gl = gl]
    IN  IF bucket.cost <= 0 THEN ReturnErr(NewCall("Check", <<bucket>>), "ErrInvalidCostForCheck")
        ELSE IF gl.err = "errLimitDisabled" THEN ReturnD(n, disabledLimitDecision)
        ELSE IF gl.err /= "nil" THEN ReturnErr(n, gl.err)
        ELSE IF bucket.cost > gl.limit.Burst THEN ReturnErr(n, "ErrInvalidCostOverLimit")
        ELSE WithoutCancel([n EXCEPT !.pc = "get"])

\* The part of Check before its source call (limiter.go 132-146).
CheckEnter(bucket) ==
    LET gl == getLimit(bucket.name, bucket.key)
        n  == [NewCall("Check", <<bucket>>) EXCEPT !.gl = gl]
    IN  IF bucket.cost < 0 THEN ReturnErr(NewCall("Check", <<bucket>>), "ErrInvalidCostForCheck")
        ELSE IF gl.err = "errLimitDisabled" THEN ReturnD(n, disabledLimitDecision)
        ELSE IF gl.err /= "nil" THEN ReturnErr(n, gl.err)
        ELSE IF bucket.cost > gl.limit.Burst THEN ReturnErr(n, "ErrInvalidCostOverLimit")
        ELSE WithoutCancel([n EXCEPT !.pc = "get"])

CheckStart(p) ==
    /\ \E bucket \in Inputs(p, BucketsWithCost, {}) :
          calls' = [calls EXCEPT ![p] = CheckEnter(bucket)]
    /\ last' = NoLast
    /\ UNCHANGED <<store, now, conc, spent>>

\* l.source.Get(ctx, bucket.key) of Check, Spend and Refund is served.
SourceGet(p) ==
    /\ calls[p].pc = "get"
    /\ calls[p].op \in {"Check", "Spend", "Refund"}
    /\ LET key == calls[p].buckets[1].key
           got == Get(store, key)
       IN  calls' = IF CtxDone(calls[p])
                    THEN [calls EXCEPT ![p] = ReadFailed(calls[p], CtxErr(calls[p]))]
                    ELSE [calls EXCEPT ![p].pc = "eval", ![p].read = TRUE, ![p].gets = @ + 1,
                                       ![p].tats = IF got.found THEN [k \in {key} |-> got.tat]
                                                   ELSE EmptyMap]
    /\ UNCHANGED <<store, now, last, conc, spent>>

\* Check after its Get (limiter.go 152-161): nothing is written.
CheckDecide(c) ==
    LET bucket == c.buckets[1]
        limit  == getLimit(bucket.name, bucket.key).limit
        tat    == IF bucket.key \in DOMAIN c.tats THEN c.tats[bucket.key] ELSE now
    IN  [ReturnD(c, maybeSpend(now, limit, tat, bucket.cost)) EXCEPT !.evalNow = now]

\* Check creating the bucket it did not find, as Spend does.
CheckStoreInitializes(c, d) ==
    IF c.buckets[1].key \in DOMAIN c.tats THEN store
    ELSE Set(store, c.buckets[1].key, d.newTAT)

\* The store after Check has decided: Check makes no source call after its
\* Get, so it is the store as it was (limiter.go 152-161).
CheckStore(c, d) == store

CheckEval(p) ==
    /\ calls[p].pc = "eval"
    /\ calls[p].op = "Check"
    /\ calls' = [calls EXCEPT ![p] = CheckDecide(calls[p])]
    /\ store' = CheckStore(calls[p], CheckDecide(calls[p]).d)
    /\ UNCHANGED <<now, last, conc, spent>>

\* Spend without the check of the cost against the burst.
SpendEnterAnyCost(bucket) ==
    LET gl == getLimit(bucket.name, bucket.key)
        n  == [NewCall("Spend", <<bucket>>) EXCEPT !.gl = gl]
    IN  IF bucket.cost <= 0 THEN ReturnErr(NewCall("Spend", <<bucket>>), "ErrInvalidCost")
        ELSE IF gl.err = "errLimitDisabled" THEN ReturnD(n, disabledLimitDecision)
        ELSE IF gl.err /= "nil" THEN ReturnErr(n, gl.err)
        ELSE WithoutCancel([n EXCEPT !.pc = "get", !.deferred = TRUE, !.status = "denied",
                                     !.limitsForMetrics = <<bucket.name>>])

\* The part of Spend before its source call (limiter.go 171-195): the
\* validations, and the deferred observation of the spend latency, declared
\* with status Denied.
SpendEnter(bucket) ==
    LET gl == getLimit(bucket.name, bucket.key)
        n  == [NewCall("Spend", <<bucket>>) EXCEPT !.gl = gl]
    IN  IF bucket.cost <= 0 THEN ReturnErr(NewCall("Spend", <<bucket>>), "ErrInvalidCost")
        ELSE IF gl.err = "errLimitDisabled" THEN ReturnD(n, disabledLimitDecision)
        ELSE IF gl.err /= "nil" THEN ReturnErr(n, gl.err)
        ELSE IF bucket.cost > gl.limit.Burst THEN ReturnErr(n, "ErrInvalidCostOverLimit")
        ELSE WithoutCancel([n EXCEPT !.pc = "get", !.deferred = TRUE, !.status = "denied",
                                     !.limitsForMetrics = <<bucket.name>>])

SpendStart(p) ==
    /\ \E bucket \in Inputs(p, BucketsWithCost, OverlapBuckets) :
          calls' = [calls EXCEPT ![p] = SpendEnter(bucket)]
    /\ last' = NoLast
    /\ UNCHANGED <<store, now, conc, spent>>

\* Spend that does not create the bucket it did not find.
SpendPersistsExisting(exists, d) == exists /\ d.Allowed

\* Spend writing the decision's newTAT whether allowed or not.
SpendPersistsAlways(exists, d) == TRUE

\* Whether Spend goes on to Set the decision's newTAT: always when the bucket
\* did not exist (initialize), otherwise only when allowed (limiter.go 198-224).
SpendPersists(exists, d) == ~exists \/ d.Allowed

\* l.overrideUsageGauge.WithLabelValues(bucket.name.String(),
\* bucket.key).Set(utilization), added to what gauge holds when the limit is
\* an override (limiter.go 214-218, 302-306); the utilization
\* float64(limit.Burst-d.Remaining) / float64(limit.Burst) is kept as its
\* numerator and denominator.
OverrideUsage(gauge, bucket, limit, d) ==
    IF limit.isOverride
    THEN Append(gauge, [limit |-> bucket.name, bucket_key |-> bucket.key,
                        num |-> limit.Burst - d.Remaining, den |-> limit.Burst])
    ELSE gauge

\* Spend charging the bucket for a request it denies.
SpendDecideChargesDenied(c) ==
    LET bucket == c.buckets[1]
        limit  == getLimit(bucket.name, bucket.key).limit
        exists == bucket.key \in DOMAIN c.tats
        tat    == IF exists THEN c.tats[bucket.key] ELSE now
        d      == maybeSpend(now, limit, tat, bucket.cost)
    IN  [c EXCEPT !.pc = "set", !.d = d, !.evalNow = now,
                  !.gauge = IF exists THEN OverrideUsage(@, bucket, limit, d) ELSE @,
                  !.newTATs = [k \in {bucket.key} |->
                                  Max2(tat, now) + bucket.cost * emissionInterval(limit)]]

\* Spend after its Get (limiter.go 197-224, and initialize 487-488). The
\* override usage gauge is set on the path of a bucket that exists (214-218),
\* not on the path that initializes one (198-208).
SpendDecide(c) ==
    LET bucket == c.buckets[1]
        limit  == getLimit(bucket.name, bucket.key).limit
        exists == bucket.key \in DOMAIN c.tats
        tat    == IF exists THEN c.tats[bucket.key] ELSE now
        d      == maybeSpend(now, limit, tat, bucket.cost)
        g      == [c EXCEPT !.gauge = IF exists THEN OverrideUsage(@, bucket, limit, d) ELSE @]
    IN  IF SpendPersists(exists, d)
        THEN [g EXCEPT !.pc = "set", !.d = d, !.evalNow = now,
                       !.newTATs = [k \in {bucket.key} |-> d.newTAT]]
        ELSE [ReturnD(g, d) EXCEPT !.evalNow = now]

SpendEval(p) ==
    /\ calls[p].pc = "eval"
    /\ calls[p].op = "Spend"
    /\ calls' = [calls EXCEPT ![p] = SpendDecide(calls[p])]
    /\ UNCHANGED <<store, now, last, conc, spent>>

\* Refund refusing a cost above the burst, as Spend does.
RefundEnterBurstChecked(bucket) ==
    LET gl == getLimit(bucket.name, bucket.key)
        n  == [NewCall("Refund", <<bucket>>) EXCEPT !.gl = gl]
    IN  IF bucket.cost <= 0 THEN ReturnErr(NewCall("Refund", <<bucket>>), "ErrInvalidCost")
        ELSE IF gl.err = "errLimitDisabled" THEN ReturnD(n, disabledLimitDecision)
        ELSE IF gl.err /= "nil" THEN ReturnErr(n, gl.err)
        ELSE IF bucket.cost > gl.limit.Burst THEN ReturnErr(n, "ErrInvalidCostOverLimit")
        ELSE WithoutCancel([n EXCEPT !.pc = "get"])

\* The part of Refund before its source call (limiter.go 358-368).
RefundEnter(bucket) ==
    LET gl == getLimit(bucket.name, bucket.key)
        n  == [NewCall("Refund", <<bucket>>) EXCEPT !.gl = gl]
    IN  IF bucket.cost <= 0 THEN ReturnErr(NewCall("Refund", <<bucket>>), "ErrInvalidCost")
        ELSE IF gl.err = "errLimitDisabled" THEN ReturnD(n, disabledLimitDecision)
        ELSE IF gl.err /= "nil" THEN ReturnErr(n, gl.err)
        ELSE WithoutCancel([n EXCEPT !.pc = "get"])

RefundStart(p) ==
    /\ \E bucket \in Inputs(p, BucketsWithCost, OverlapBuckets) :
          calls' = [calls EXCEPT ![p] = RefundEnter(bucket)]
    /\ last' = NoLast
    /\ UNCHANGED <<store, now, conc, spent>>

\* Refund writing the current time, a full bucket, for the kernel's newTAT.
RefundDecideFull(c) ==
    LET bucket == c.buckets[1]
        limit  == getLimit(bucket.name, bucket.key).limit
        d      == maybeRefund(now, limit, c.tats[bucket.key], bucket.cost)
    IN  IF bucket.key \notin DOMAIN c.tats
        THEN ReturnErr(c, "ErrBucketNotFound")
        ELSE IF ~d.Allowed
        THEN [ReturnD(c, d) EXCEPT !.evalNow = now]
        ELSE [c EXCEPT !.pc = "set", !.d = d, !.evalNow = now,
                       !.newTATs = [k \in {bucket.key} |-> now]]

\* Refund returning the kernel's decision without writing its newTAT.
RefundDecideNoWrite(c) ==
    LET bucket == c.buckets[1]
        limit  == getLimit(bucket.name, bucket.key).limit
        d      == maybeRefund(now, limit, c.tats[bucket.key], bucket.cost)
    IN  IF bucket.key \notin DOMAIN c.tats
        THEN ReturnErr(c, "ErrBucketNotFound")
        ELSE [ReturnD(c, d) EXCEPT !.evalNow = now]

\* Refund after its Get (limiter.go 374-382): every error of Get, the
\* source's ErrBucketNotFound included, is returned to the caller.
RefundDecide(c) ==
    LET bucket == c.buckets[1]
        limit  == getLimit(bucket.name, bucket.key).limit
        d      == maybeRefund(now, limit, c.tats[bucket.key], bucket.cost)
    IN  IF bucket.key \notin DOMAIN c.tats
        THEN ReturnErr(c, "ErrBucketNotFound")
        ELSE IF ~d.Allowed
        THEN [ReturnD(c, d) EXCEPT !.evalNow = now]
        ELSE [c EXCEPT !.pc = "set", !.d = d, !.evalNow = now,
                       !.newTATs = [k \in {bucket.key} |-> d.newTAT]]

RefundEval(p) ==
    /\ calls[p].pc = "eval"
    /\ calls[p].op = "Refund"
    /\ calls' = [calls EXCEPT ![p] = RefundDecide(calls[p])]
    /\ UNCHANGED <<store, now, last, conc, spent>>

\* A Set that writes only when the key still holds the TAT the call read
\* (compare-and-swap), reporting success either way.
SourceSetCAS(p) ==
    /\ calls[p].pc = "set"
    /\ calls[p].op \in {"Spend", "Refund"}
    /\ LET key == calls[p].buckets[1].key
       IN  store' = IF BatchGet(store, <<key>>, {}).tats = calls[p].tats
                    THEN Set(store, key, calls[p].newTATs[key])
                    ELSE store
    /\ calls' = [calls EXCEPT ![p] = WriteServed(calls[p])]
    /\ last' = NoLast
    /\ UNCHANGED <<now, conc, spent>>

\* l.source.Set(ctx, bucket.key, d.newTAT) of Spend, initialize and Refund is
\* served; the call returns d, nil.
SourceSet(p) ==
    /\ calls[p].pc = "set"
    /\ calls[p].op \in {"Spend", "Refund"}
    /\ LET key == calls[p].buckets[1].key
       IN  store' = IF CtxDone(calls[p]) THEN store ELSE Set(store, key, calls[p].newTATs[key])
    /\ calls' = IF CtxDone(calls[p])
                THEN [calls EXCEPT ![p] = WriteFailed(calls[p], CtxErr(calls[p]))]
                ELSE [calls EXCEPT ![p] = WriteServed(calls[p])]
    /\ last' = NoLast
    /\ UNCHANGED <<now, conc, spent>>

\* The buckets passed to Reset (a Bucket has no cost: it is left zero).
ResetBuckets == {b \in BucketsWithCost : b.cost = 0}

\* Reset (limiter.go 477-482): nothing but the Delete.
ResetStart(p) ==
    /\ \E bucket \in Inputs(p, ResetBuckets, {b \in ResetBuckets : b.key = "NewOrdersPerAccount:1"}) :
          calls' = [calls EXCEPT ![p] = WithoutCancel([NewCall("Reset", <<bucket>>) EXCEPT !.pc = "del"])]
    /\ last' = NoLast
    /\ UNCHANGED <<store, now, conc, spent>>

\* l.source.Delete(ctx, bucket.key) is served.
SourceDelete(p) ==
    /\ calls[p].pc = "del"
    /\ store' = IF CtxDone(calls[p]) THEN store ELSE Delete(store, calls[p].buckets[1].key)
    /\ calls' = IF CtxDone(calls[p])
                THEN [calls EXCEPT ![p] = WriteFailed(calls[p], CtxErr(calls[p]))]
                ELSE [calls EXCEPT ![p].pc = "done", ![p].dels = @ + 1]
    /\ last' = NoLast
    /\ UNCHANGED <<now, conc, spent>>

\* A batch validating the cost of its first bucket only.
BatchEnterFirstCost(op, buckets) ==
    LET n == NewCall(op, buckets)
    IN  IF Len(buckets) = 0 THEN ReturnErr(n, "errZeroBucketsInBatch")
        ELSE IF buckets[1].cost <= 0 THEN ReturnErr(n, "ErrInvalidCost")
        ELSE WithoutCancel([n EXCEPT !.pc = "get"])

\* A batch of no buckets going on to the source.
BatchEnterEmpty(op, buckets) ==
    LET n == NewCall(op, buckets)
    IN  IF \E i \in 1..Len(buckets) : buckets[i].cost <= 0 THEN ReturnErr(n, "ErrInvalidCost")
        ELSE WithoutCancel([n EXCEPT !.pc = "get"])

\* The part of BatchSpend and of BatchRefund before the source call
\* (limiter.go 242-252, 396-406).
BatchEnter(op, buckets) ==
    LET n == NewCall(op, buckets)
    IN  IF Len(buckets) = 0 THEN ReturnErr(n, "errZeroBucketsInBatch")
        ELSE IF \E i \in 1..Len(buckets) : buckets[i].cost <= 0 THEN ReturnErr(n, "ErrInvalidCost")
        ELSE WithoutCancel([n EXCEPT !.pc = "get"])

BatchSpendStart(p) ==
    /\ \E buckets \in Inputs(p, Batches, {<<b>> : b \in OverlapBuckets}) :
          calls' = [calls EXCEPT ![p] = BatchEnter("BatchSpend", buckets)]
    /\ last' = NoLast
    /\ UNCHANGED <<store, now, conc, spent>>

BatchRefundStart(p) ==
    /\ \E buckets \in Inputs(p, Batches, {<<b>> : b \in OverlapBuckets}) :
          calls' = [calls EXCEPT ![p] = BatchEnter("BatchRefund", buckets)]
    /\ last' = NoLast
    /\ UNCHANGED <<store, now, conc, spent>>

\* Source calls are let fail in calls that do not overlap with another.
Alone(p) == \A q \in Procs \ {p} : calls[q].pc = "idle"

\* l.source.BatchGet(ctx, bucketKeys) is served: every Get of its pipeline
\* succeeds or finds no key, or, in a call that does not overlap with
\* another, some of them fail; the call returns nil and the error of
\* BatchGet (limiter.go 257-260, 411-414).
SourceBatchGet(p) ==
    /\ calls[p].pc = "get"
    /\ calls[p].op \in {"BatchSpend", "BatchRefund"}
    /\ \E cmdErrs \in (IF Alone(p) THEN SUBSET (1..Len(calls[p].buckets)) ELSE {{}}) :
          LET buckets == calls[p].buckets
              bucketKeys == [i \in 1..Len(buckets) |-> buckets[i].key]
              got == BatchGet(store, bucketKeys, cmdErrs)
          IN  calls' = IF CtxDone(calls[p])
                       THEN [calls EXCEPT ![p] = ReadFailed(calls[p], CtxErr(calls[p]))]
                       ELSE IF got.err /= "nil"
                       THEN [calls EXCEPT ![p] = [ReadFailed(calls[p], got.err)
                                                     EXCEPT !.cmdErrs = cmdErrs]]
                       ELSE [calls EXCEPT ![p].pc = "eval", ![p].read = TRUE, ![p].gets = @ + 1,
                                          ![p].tats = got.tats, ![p].cmdErrs = cmdErrs]
    /\ UNCHANGED <<store, now, last, conc, spent>>

\* The consolidated decision a batch loop has built so far, with the TATs to
\* write and the error that ended the loop, if any.
BatchAcc(allowed) ==
    [allowed |-> allowed, minRemaining |-> MaxInt64, maxRetryIn |-> 0, maxResetIn |-> 0,
     maxNewTAT |-> ZeroTime, newTATs |-> EmptyMap, err |-> "nil",
     limitsForMetrics |-> <<>>, gauge |-> <<>>]

\* newTATs[key] = tat
MapPut(m, key, tat) ==
    [k \in DOMAIN m \cup {key} |-> IF k = key THEN tat ELSE m[k]]

\* The consolidated decision taking each bucket's values as they come, the
\* last bucket's standing.
ConsolidateLast(acc, key, d, both) ==
    [acc EXCEPT !.newTATs = IF d.Allowed THEN MapPut(acc.newTATs, key, d.newTAT) ELSE @,
                !.allowed = both,
                !.minRemaining = d.Remaining,
                !.maxRetryIn = d.RetryIn,
                !.maxResetIn = d.ResetIn,
                !.maxNewTAT = d.newTAT]

\* One bucket's decision d folded into the consolidated decision
\* (limiter.go 297-315, 442-454); both is the conjunction for BatchSpend
\* and the disjunction for BatchRefund.
Consolidate(acc, key, d, both) ==
    [acc EXCEPT !.newTATs = IF d.Allowed THEN MapPut(acc.newTATs, key, d.newTAT) ELSE @,
                !.allowed = both,
                !.minRemaining = Min2(@, d.Remaining),
                !.maxRetryIn = Max2(@, d.RetryIn),
                !.maxResetIn = Max2(@, d.ResetIn),
                !.maxNewTAT = IF d.newTAT > @ THEN d.newTAT ELSE @]

\* What the loop of BatchSpend keeps of a bucket for the metrics: its limit
\* name, unless limitsForMetrics holds it already (limiter.go 285-287), and
\* the usage of an override (302-306).
ForMetrics(acc, bucket, limit, d) ==
    [acc EXCEPT !.limitsForMetrics =
                    IF \E j \in 1..Len(@) : @[j] = bucket.name THEN @ ELSE Append(@, bucket.name),
                !.gauge = OverrideUsage(@, bucket, limit, d)]

\* The loop of BatchSpend over buckets[i..] (limiter.go 275-316).
RECURSIVE BatchSpendLoop(_, _, _, _)
BatchSpendLoop(buckets, i, tats, acc) ==
    IF i > Len(buckets) THEN acc
    ELSE LET bucket == buckets[i]
             gl     == getLimit(bucket.name, bucket.key)
             tat    == IF bucket.key \in DOMAIN tats /\ tats[bucket.key] /= ZeroTime
                       THEN tats[bucket.key] ELSE now
             d      == maybeSpend(now, gl.limit, tat, bucket.cost)
         IN  IF gl.err = "errLimitDisabled" THEN BatchSpendLoop(buckets, i + 1, tats, acc)
             ELSE IF gl.err /= "nil" THEN [acc EXCEPT !.err = gl.err]
             ELSE BatchSpendLoop(buckets, i + 1, tats,
                                 Consolidate(ForMetrics(acc, bucket, gl.limit, d),
                                             bucket.key, d, acc.allowed /\ d.Allowed))

\* The loop of BatchRefund wanting every refund allowed, as BatchSpend wants
\* every spend.
RECURSIVE BatchRefundLoopAll(_, _, _, _)
BatchRefundLoopAll(buckets, i, tats, acc) ==
    IF i > Len(buckets) THEN acc
    ELSE LET bucket == buckets[i]
             gl     == getLimit(bucket.name, bucket.key)
             d      == maybeRefund(now, gl.limit, tats[bucket.key], bucket.cost)
         IN  IF gl.err = "errLimitDisabled" THEN BatchRefundLoopAll(buckets, i + 1, tats, acc)
             ELSE IF gl.err /= "nil" THEN [acc EXCEPT !.err = gl.err]
             ELSE IF bucket.key \notin DOMAIN tats \/ tats[bucket.key] = ZeroTime
             THEN BatchRefundLoopAll(buckets, i + 1, tats, acc)
             ELSE BatchRefundLoopAll(buckets, i + 1, tats,
                                     Consolidate(acc, bucket.key, d, acc.allowed /\ d.Allowed))

\* The loop of BatchRefund over buckets[i..] (limiter.go 423-455).
RECURSIVE BatchRefundLoop(_, _, _, _)
BatchRefundLoop(buckets, i, tats, acc) ==
    IF i > Len(buckets) THEN acc
    ELSE LET bucket == buckets[i]
             gl     == getLimit(bucket.name, bucket.key)
             d      == maybeRefund(now, gl.limit, tats[bucket.key], bucket.cost)
         IN  IF gl.err = "errLimitDisabled" THEN BatchRefundLoop(buckets, i + 1, tats, acc)
             ELSE IF gl.err /= "nil" THEN [acc EXCEPT !.err = gl.err]
             ELSE IF bucket.key \notin DOMAIN tats \/ tats[bucket.key] = ZeroTime
             THEN BatchRefundLoop(buckets, i + 1, tats, acc)
             ELSE BatchRefundLoop(buckets, i + 1, tats,
                                  Consolidate(acc, bucket.key, d, acc.allowed \/ d.Allowed))

\* The consolidated *Decision of a batch (limiter.go 337-343, 466-472).
BatchDecision(acc) ==
    MkDecision(acc.allowed, acc.minRemaining, acc.maxRetryIn, acc.maxResetIn, acc.maxNewTAT)

\* BatchSpend writing whatever it has, as BatchRefund does.
BatchSpendPersistsUngated(acc) == Cardinality(DOMAIN acc.newTATs) > 0

\* Whether BatchSpend issues its BatchSet (limiter.go 328).
BatchSpendPersists(acc) == Cardinality(DOMAIN acc.newTATs) > 0 /\ acc.allowed

\* Whether BatchRefund issues its BatchSet (limiter.go 458).
BatchRefundPersists(acc) == Cardinality(DOMAIN acc.newTATs) > 0

\* A batch after its loop: the BatchSet, or the return. BatchSpend declares
\* the deferred observation of its spend latency here, after the loop, with
\* status Denied (limiter.go 318-325), and sets status to Allowed when no
\* BatchSet is to be issued, whatever the consolidated decision (327-334).
BatchDecide(c, acc, persists) ==
    LET g == [c EXCEPT !.gauge = acc.gauge]
        m == IF c.op = "BatchSpend"
             THEN [g EXCEPT !.deferred = TRUE, !.status = "denied",
                            !.limitsForMetrics = acc.limitsForMetrics]
             ELSE g
    IN  IF acc.err /= "nil" THEN ReturnErr(g, acc.err)
        ELSE IF persists
        THEN [m EXCEPT !.pc = "set", !.d = BatchDecision(acc), !.evalNow = now, !.newTATs = acc.newTATs]
        ELSE [ReturnD(SetStatus(m, "allowed"), BatchDecision(acc)) EXCEPT !.evalNow = now]

\* BatchSpend after its BatchGet (limiter.go 262-343).
BatchSpendEval(p) ==
    /\ calls[p].pc = "eval"
    /\ calls[p].op = "BatchSpend"
    /\ LET acc == BatchSpendLoop(calls[p].buckets, 1, calls[p].tats, BatchAcc(TRUE))
       IN  calls' = [calls EXCEPT ![p] = BatchDecide(calls[p], acc, BatchSpendPersists(acc))]
    /\ UNCHANGED <<store, now, last, conc, spent>>

\* BatchRefund after its BatchGet (limiter.go 416-472).
BatchRefundEval(p) ==
    /\ calls[p].pc = "eval"
    /\ calls[p].op = "BatchRefund"
    /\ LET acc == BatchRefundLoop(calls[p].buckets, 1, calls[p].tats, BatchAcc(FALSE))
       IN  calls' = [calls EXCEPT ![p] = BatchDecide(calls[p], acc, BatchRefundPersists(acc))]
    /\ UNCHANGED <<store, now, last, conc, spent>>

\* l.source.BatchSet(ctx, newTATs) is served; the call returns the
\* consolidated decision.
SourceBatchSet(p) ==
    /\ calls[p].pc = "set"
    /\ calls[p].op \in {"BatchSpend", "BatchRefund"}
    /\ store' = IF CtxDone(calls[p]) THEN store ELSE BatchSet(store, calls[p].newTATs)
    /\ calls' = IF CtxDone(calls[p])
                THEN [calls EXCEPT ![p] = WriteFailed(calls[p], CtxErr(calls[p]))]
                ELSE [calls EXCEPT ![p] = WriteServed(calls[p])]
    /\ last' = NoLast
    /\ UNCHANGED <<now, conc, spent>>

\* A Get fails with an error that is not ErrBucketNotFound; the call
\* returns nil and the error.
SourceReadFail(p) ==
    /\ calls[p].pc = "get"
    /\ calls[p].op \in {"Check", "Spend", "Refund"}
    /\ Alone(p)
    /\ calls' = [calls EXCEPT ![p] = ReadFailed(calls[p], "SourceError")]
    /\ UNCHANGED <<store, now, last, conc, spent>>

\* A Set, BatchSet or Delete fails. The store may have applied it all the
\* same, and a pipelined BatchSet may have applied any part of it.
SourceWriteFail(p) ==
    /\ calls[p].pc \in {"set", "del"}
    /\ Alone(p)
    /\ \/ /\ calls[p].pc = "set"
          /\ \E W \in SUBSET (DOMAIN calls[p].newTATs) :
                store' = BatchSet(store, [k \in W |-> calls[p].newTATs[k]])
       \/ /\ calls[p].pc = "del"
          /\ store' \in {store, Delete(store, calls[p].buckets[1].key)}
    /\ calls' = [calls EXCEPT ![p] = WriteFailed(calls[p], "SourceError")]
    /\ last' = NoLast
    /\ UNCHANGED <<now, conc, spent>>

\* The caller's context is canceled (the client disconnects) while the call
\* is in flight: before its read or delete is served, or between its read
\* and its write. As source failures, cancellation is let happen in
\* calls that do not overlap with another; of the batches, in those of one
\* bucket (how many buckets a batch holds plays no part in what its context
\* does).
Cancel(p) ==
    /\ calls[p].pc \in {"get", "eval", "del"}
    /\ ~calls[p].canceled
    /\ ~calls[p].expired
    /\ Alone(p)
    /\ Len(calls[p].buckets) <= 1
    /\ calls' = [calls EXCEPT ![p].canceled = TRUE, ![p].cancelAt = calls[p].pc]
    /\ UNCHANGED <<store, now, last, conc, spent>>

\* The deadline of the caller's context passes while the call is in flight,
\* at the same moments and in the same calls.
Expire(p) ==
    /\ calls[p].pc \in {"get", "eval", "del"}
    /\ ~calls[p].canceled
    /\ ~calls[p].expired
    /\ Alone(p)
    /\ Len(calls[p].buckets) <= 1
    /\ calls' = [calls EXCEPT ![p].expired = TRUE, ![p].cancelAt = calls[p].pc]
    /\ UNCHANGED <<store, now, last, conc, spent>>

\* The clock advances.
Tick ==
    /\ now < MaxNow
    /\ now' = now + 1
    /\ last' = IF last.op = "Reset" THEN last ELSE NoLast
    /\ UNCHANGED <<store, calls, conc, spent>>

\* The cost the buckets i.. of a batch ask of key k, the buckets of a limit
\* that is not configured left out.
RECURSIVE CostOn(_, _, _)
CostOn(buckets, i, k) ==
    IF i > Len(buckets) THEN 0
    ELSE (IF buckets[i].key = k /\ getLimit(buckets[i].name, buckets[i].key).err = "nil"
          THEN buckets[i].cost ELSE 0) + CostOn(buckets, i + 1, k)

\* Nothing is kept of what has been spent.
NoSpent == EmptyMap

\* What has been spent, call c returning: when that is kept, and c is a
\* Spend or BatchSpend that returns an allowed Decision of the kernel, the
\* costs of its buckets are added to what their keys were granted at the
\* clock value of its evaluation.
Charged(sp, c) ==
    IF /\ sp /= NoSpent
       /\ c.op \in {"Spend", "BatchSpend"}
       /\ c.read /\ c.evalNow /= ZeroTime
       /\ c.err = "nil" /\ ~c.d.nil /\ c.d.Allowed
    THEN [k \in DOMAIN sp |->
            [t \in DOMAIN sp[k] |->
                sp[k][t] + (IF t = c.evalNow THEN CostOn(c.buckets, 1, k) ELSE 0)]]
    ELSE sp

\* The caller takes the result of its call.
Return(p) ==
    /\ calls[p].pc = "done"
    /\ calls' = [calls EXCEPT ![p] = IdleCall]
    /\ last' = IF calls[p].op = "Check" /\ calls[p].err = "nil" /\ calls[p].evalNow = now
               THEN [NoLast EXCEPT !.op = "Check", !.buckets = calls[p].buckets,
                                   !.d = calls[p].d, !.now = now]
               ELSE IF calls[p].op = "Reset" /\ calls[p].err = "nil" /\ ~conc
               THEN [NoLast EXCEPT !.op = "Reset", !.buckets = calls[p].buckets,
                                   !.resets = Min2(MaxResets, calls[p].afterReset + 1)]
               ELSE IF /\ calls[p].op = "Spend" /\ calls[p].err = "nil" /\ ~conc
                       /\ calls[p].read /\ calls[p].evalNow = now
                       /\ ~calls[p].d.nil /\ calls[p].d.Allowed
               THEN [NoLast EXCEPT !.op = "Spend", !.buckets = calls[p].buckets,
                                   !.d = calls[p].d, !.now = now, !.tats = calls[p].tats]
               ELSE NoLast
    /\ spent' = Charged(spent, calls[p])
    /\ UNCHANGED <<store, now, conc>>

Init ==
    /\ store = EmptyMap
    /\ now = 0
    /\ calls = [p \in Procs |-> IdleCall]
    /\ last = NoLast
    /\ conc = FALSE
    /\ spent = NoSpent

\* A completed call is returned before anything else happens.
NoneDone == \A q \in Procs : calls[q].pc /= "done"

Next ==
    \/ NoneDone /\ Tick
    \/ \E p \in Procs : Return(p)
    \/ \E p \in Procs : NoneDone /\ CheckStart(p)
    \/ \E p \in Procs : NoneDone /\ SourceGet(p)
    \/ \E p \in Procs : NoneDone /\ CheckEval(p)
    \/ \E p \in Procs : NoneDone /\ SpendStart(p)
    \/ \E p \in Procs : NoneDone /\ SpendEval(p)
    \/ \E p \in Procs : NoneDone /\ RefundStart(p)
    \/ \E p \in Procs : NoneDone /\ RefundEval(p)
    \/ \E p \in Procs : NoneDone /\ SourceSet(p)
    \/ \E p \in Procs : NoneDone /\ ResetStart(p)
    \/ \E p \in Procs : NoneDone /\ SourceDelete(p)
    \/ \E p \in Procs : NoneDone /\ BatchSpendStart(p)
    \/ \E p \in Procs : NoneDone /\ BatchRefundStart(p)
    \/ \E p \in Procs : NoneDone /\ SourceBatchGet(p)
    \/ \E p \in Procs : NoneDone /\ BatchSpendEval(p)
    \/ \E p \in Procs : NoneDone /\ BatchRefundEval(p)
    \/ \E p \in Procs : NoneDone /\ SourceBatchSet(p)
    \/ \E p \in Procs : NoneDone /\ SourceReadFail(p)
    \/ \E p \in Procs : NoneDone /\ SourceWriteFail(p)
    \/ \E p \in Procs : NoneDone /\ Cancel(p)
    \/ \E p \in Procs : NoneDone /\ Expire(p)

\* Calls one after the other.
Spec == Init /\ [][Next]_vars

InitConc ==
    /\ store = EmptyMap
    /\ now = 0
    /\ calls = [p \in Procs |-> IdleCall]
    /\ last = NoLast
    /\ conc = TRUE
    /\ spent = NoSpent

\* Calls one after the other, and calls of two callers overlapping.
SpecConc == InitConc /\ [][Next]_vars

----------------------------------------------------------------------------
(* The source, called on its own: each call of a method of RedisSource, with
   the error its Redis command returns, the result labels under which it
   observes its latency and the error it returns. *)

\* The keys and the TATs a caller of the source passes.
SrcKeys == {"NewOrdersPerAccount:1", OverrideKey}

SrcTATs == {0, MaxNow}

\* The record of a call of method op that Redis answered with srcErr, that
\* observed its latency under results and that returned tats and err.
SourceCall(op, srcErr, results, tats, err) ==
    [IdleCall EXCEPT !.pc = "done", !.op = op, !.srcErr = srcErr, !.results = results,
                     !.tats = tats, !.err = err]

\* What a method with a single Redis command that is not a Get observes and
\* returns for the command's error e (source_redis.go 76-83, 96-101, 170-177,
\* 185-192).
Written(op, e) ==
    IF e = NilErr THEN SourceCall(op, e, <<"success">>, EmptyMap, "nil")
    ELSE SourceCall(op, e, <<resultForError(e)>>, EmptyMap, "SourceError")

\* RedisSource.Get (source_redis.go 109-125): the Get command fails with e,
\* or returns redis.Nil for a key that does not exist.
RedisGet ==
    /\ \E key \in SrcKeys, e \in {NilErr} \cup GetErrs :
          LET err == IF e /= NilErr THEN e
                     ELSE IF Get(store, key).found THEN NilErr ELSE <<"redis.Nil">>
          IN  calls' = [calls EXCEPT !["c1"] =
                  IF err = NilErr
                  THEN SourceCall("Get", err, <<"success">>,
                                  [k \in {key} |-> Get(store, key).tat], "nil")
                  ELSE IF errorsIs(err, <<"redis.Nil">>)
                  THEN SourceCall("Get", err, <<"notFound">>, EmptyMap, "ErrBucketNotFound")
                  ELSE SourceCall("Get", err, <<resultForError(err)>>, EmptyMap, "SourceError")]
    /\ UNCHANGED <<store, now, last, conc, spent>>

\* RedisSource.Set (source_redis.go 73-84); a Set that fails may have been
\* applied all the same.
RedisSet ==
    /\ \E key \in SrcKeys, tat \in SrcTATs, e \in {NilErr} \cup GetErrs :
          /\ store' \in (IF e = NilErr THEN {Set(store, key, tat)}
                         ELSE {store, Set(store, key, tat)})
          /\ calls' = [calls EXCEPT !["c1"] = Written("Set", e)]
    /\ UNCHANGED <<now, last, conc, spent>>

\* RedisSource.BatchGet (source_redis.go 131-162): the Gets of cmdErrs fail
\* with e.
RedisBatchGet ==
    /\ \E bucketKeys \in SeqsUpTo(SrcKeys, MaxBatch) :
       \E cmdErrs \in SUBSET (1..Len(bucketKeys)) :
       \E e \in (IF cmdErrs = {} THEN {NilErr} ELSE GetErrs) :
          LET got == BatchGet(store, bucketKeys, cmdErrs)
              missing == \E i \in 1..Len(bucketKeys) : bucketKeys[i] \notin DOMAIN store
              seen == BatchGetResults(store, bucketKeys, cmdErrs, e)
          IN  calls' = [calls EXCEPT !["c1"] =
                  IF got.err /= "nil"
                  THEN [SourceCall("BatchGet", e, seen, EmptyMap, got.err)
                           EXCEPT !.cmdErrs = cmdErrs]
                  ELSE SourceCall("BatchGet", IF missing THEN <<"redis.Nil">> ELSE NilErr,
                                  seen \o <<"success">>, got.tats, "nil")]
    /\ UNCHANGED <<store, now, last, conc, spent>>

\* RedisSource.BatchSet (source_redis.go 89-103); a pipelined BatchSet that
\* fails may have applied any part of it.
RedisBatchSet ==
    /\ \E K \in SUBSET SrcKeys, tat \in SrcTATs, e \in {NilErr} \cup GetErrs :
          /\ store' \in (IF e = NilErr THEN {BatchSet(store, [k \in K |-> tat])}
                         ELSE {BatchSet(store, [k \in W |-> tat]) : W \in SUBSET K})
          /\ calls' = [calls EXCEPT !["c1"] = Written("BatchSet", e)]
    /\ UNCHANGED <<now, last, conc, spent>>

\* RedisSource.Delete (source_redis.go 167-178).
RedisDelete ==
    /\ \E key \in SrcKeys, e \in {NilErr} \cup GetErrs :
          /\ store' \in (IF e = NilErr THEN {Delete(store, key)}
                         ELSE {store, Delete(store, key)})
          /\ calls' = [calls EXCEPT !["c1"] = Written("Delete", e)]
    /\ UNCHANGED <<now, last, conc, spent>>

\* RedisSource.Ping (source_redis.go 182-195): e is the error of the first
\* shard that cannot be reached.
RedisPing ==
    /\ \E e \in {NilErr} \cup GetErrs :
          calls' = [calls EXCEPT !["c1"] = Written("Ping", e)]
    /\ UNCHANGED <<store, now, last, conc, spent>>

NextSource ==
    \/ RedisGet
    \/ RedisSet
    \/ RedisBatchGet
    \/ RedisBatchSet
    \/ RedisDelete
    \/ RedisPing

\* The methods of the source called one after the other.
SpecSource == Init /\ [][NextSource]_vars

----------------------------------------------------------------------------
(* Spends alone: Spend and BatchSpend called one after the other as the
   clock advances, no Refund and no Reset being applied and no source call
   failing, what each key has been granted at each clock value being kept. *)

\* The keys whose spending is kept, one of them in a run: the key under the
\* default limit and the key under the override.
RateKeys == {"NewOrdersPerAccount:1", OverrideKey}

InitRate ==
    /\ store = EmptyMap
    /\ now = 0
    /\ calls = [p \in Procs |-> IdleCall]
    /\ last = NoLast
    /\ conc = FALSE
    /\ \E key \in RateKeys : spent = [k \in {key} |-> [t \in 0..MaxNow |-> 0]]

NextRate ==
    \/ NoneDone /\ Tick
    \/ \E p \in Procs : Return(p)
    \/ \E p \in Procs : NoneDone /\ SpendStart(p)
    \/ \E p \in Procs : NoneDone /\ SourceGet(p)
    \/ \E p \in Procs : NoneDone /\ SpendEval(p)
    \/ \E p \in Procs : NoneDone /\ SourceSet(p)
    \/ \E p \in Procs : NoneDone /\ BatchSpendStart(p)
    \/ \E p \in Procs : NoneDone /\ SourceBatchGet(p)
    \/ \E p \in Procs : NoneDone /\ BatchSpendEval(p)
    \/ \E p \in Procs : NoneDone /\ SourceBatchSet(p)

SpecRate == InitRate /\ [][NextRate]_vars

----------------------------------------------------------------------------
(* The database wrappers (db/map.go): WrappedExecutor, and WrappedMap and
   WrappedTransaction, which hand every one of these calls to a
   WrappedExecutor over their DbMap or Transaction. The errors of the
   underlying borp executor are Unwrap chains as above: sql.ErrNoRows, a
   *mysql.MySQLError of number 1062 (duplicate entry) or of another number,
   or another error, alone or wrapped once.                                 *)

DBErrKinds == {"sql.ErrNoRows", "mysql.1062", "mysql.1213", "other"}

DBErrs == {<<k>> : k \in DBErrKinds} \cup {<<"wrap", k>> : k \in DBErrKinds}

\* The error values the wrappers return: the nil error, or an error of
\* dynamic type Type whose Unwrap chain below it is Err, with the Op and Table
\* of an ErrDatabaseOp.
NilDBError == [Type |-> "nil", Op |-> "", Table |-> "", Err |-> NilErr]

\* ErrDatabaseOp{Op, Table, Err} (map.go 17-21)
ErrDatabaseOp(op, table, err) ==
    [Type |-> "ErrDatabaseOp", Op |-> op, Table |-> table, Err |-> err]

\* An error of the underlying executor returned as it is.
Bare(err) ==
    IF err = NilErr THEN NilDBError
    ELSE [Type |-> "error", Op |-> "", Table |-> "", Err |-> err]

\* ErrDatabaseOp.Unwrap (map.go 40-43)
Unwrap(e) == e.Err

\* The Unwrap chain of a returned error that errors.Is and errors.As walk:
\* the chain of the inner error, an ErrDatabaseOp itself being neither
\* sql.ErrNoRows nor a *mysql.MySQLError.
Chain(e) == IF e.Type = "nil" THEN NilErr ELSE e.Err

\* IsNoRows (map.go 48-50): errors.Is(err, sql.ErrNoRows)
IsNoRows(e) == errorsIs(Chain(e), <<"sql.ErrNoRows">>)

\* IsDuplicate (map.go 55-58): errors.As finds the first *mysql.MySQLError of
\* the chain, whose Number is then compared with 1062.
IsDuplicate(e) ==
    LET err == Chain(e)
        my  == {i \in 1..Len(err) : err[i] \in {"mysql.1062", "mysql.1213"}}
    IN  my /= {} /\ err[CHOOSE i \in my : \A j \in my : i <= j] = "mysql.1062"

\* The holders and lists callers pass, named by the %T of their first
\* element, and the queries, named by the table the regexps find in them
\* ("" when they find none).
Lists == {<<>>, <<"*core.Registration">>}

Queries == {"", "registrations"}

\* tableFromQuery (map.go 288-296)
tableFromQuery(query) == query

\* errForOp (map.go 173-183)
errForOp(operation, err, list) ==
    ErrDatabaseOp(operation, IF Len(list) > 0 THEN list[1] ELSE "unknown", err)

\* errForQuery (map.go 185-204)
errForQuery(query, operation, err, list) ==
    LET table == tableFromQuery(query)
    IN  ErrDatabaseOp(operation,
                      IF table = "" /\ Len(list) > 0 THEN list[1]
                      ELSE IF table = "" THEN "unknown table"
                      ELSE table,
                      err)

\* WrappedExecutor.Get (map.go 206-212), err being what we.SqlExecutor.Get
\* returned.
ExecutorGet(err, holder) ==
    IF err /= NilErr THEN errForOp("get", err, <<holder>>) ELSE Bare(err)

\* WrappedExecutor.Insert that returns the error of the executor as it is.
ExecutorInsertBare(err, list) == Bare(err)

\* WrappedExecutor.Insert (map.go 214-220)
ExecutorInsert(err, list) ==
    IF err /= NilErr THEN errForOp("insert", err, list) ELSE NilDBError

\* WrappedExecutor.Update (map.go 222-228)
ExecutorUpdate(err, list) ==
    IF err /= NilErr THEN errForOp("update", err, list) ELSE Bare(err)

\* WrappedExecutor.Delete (map.go 230-236)
ExecutorDelete(err, list) ==
    IF err /= NilErr THEN errForOp("delete", err, list) ELSE Bare(err)

\* WrappedExecutor.Select (map.go 238-244)
ExecutorSelect(err, holder, query) ==
    IF err /= NilErr THEN errForQuery(query, "select", err, <<holder>>) ELSE Bare(err)

\* WrappedExecutor.SelectOne (map.go 246-252)
ExecutorSelectOne(err, holder, query) ==
    IF err /= NilErr THEN errForQuery(query, "select one", err, <<holder>>)
    ELSE NilDBError

\* WrappedExecutor.Query (map.go 254-260)
ExecutorQuery(err, query) ==
    IF err /= NilErr THEN errForQuery(query, "select", err, <<>>) ELSE NilDBError

\* WrappedExecutor.Exec (map.go 298-304)
ExecutorExec(err, query, args) ==
    IF err /= NilErr THEN errForQuery(query, "exec", err, args) ELSE NilDBError

\* The types the calls are made on (map.go 60-62, 116-118, 166-168).
Wrappers == {"WrappedExecutor", "WrappedMap", "WrappedTransaction"}

\* The record of a call of method on a wrapper of type on, the underlying
\* executor having returned dbErr and the wrapper ret.
DBCall(on, method, dbErr, ret) ==
    [pc |-> "done", op |-> method, on |-> on, dbErr |-> dbErr, ret |-> ret]

DBDone(call) ==
    /\ calls' = [calls EXCEPT !["c1"] = call]
    /\ UNCHANGED <<store, now, last, conc, spent>>

DBGet ==
    \E on \in Wrappers, err \in {NilErr} \cup DBErrs :
        DBDone(DBCall(on, "Get", err, ExecutorGet(err, "*core.Registration")))

DBInsert ==
    \E on \in Wrappers, err \in {NilErr} \cup DBErrs, list \in Lists :
        DBDone(DBCall(on, "Insert", err, ExecutorInsert(err, list)))

DBUpdate ==
    \E on \in Wrappers, err \in {NilErr} \cup DBErrs, list \in Lists :
        DBDone(DBCall(on, "Update", err, ExecutorUpdate(err, list)))

DBDelete ==
    \E on \in Wrappers, err \in {NilErr} \cup DBErrs, list \in Lists :
        DBDone(DBCall(on, "Delete", err, ExecutorDelete(err, list)))

DBSelect ==
    \E on \in Wrappers, err \in {NilErr} \cup DBErrs, query \in Queries :
        DBDone(DBCall(on, "Select", err,
                      ExecutorSelect(err, "*core.Registration", query)))

DBSelectOne ==
    \E on \in Wrappers, err \in {NilErr} \cup DBErrs, query \in Queries :
        DBDone(DBCall(on, "SelectOne", err,
                      ExecutorSelectOne(err, "*core.Registration", query)))

DBQuery ==
    \E on \in Wrappers, err \in {NilErr} \cup DBErrs, query \in Queries :
        DBDone(DBCall(on, "Query", err, ExecutorQuery(err, query)))

DBExec ==
    \E on \in Wrappers, err \in {NilErr} \cup DBErrs, query \in Queries, args \in Lists :
        DBDone(DBCall(on, "Exec", err, ExecutorExec(err, query, args)))

NextDB ==
    \/ DBGet
    \/ DBInsert
    \/ DBUpdate
    \/ DBDelete
    \/ DBSelect
    \/ DBSelectOne
    \/ DBQuery
    \/ DBExec

\* The methods of the database wrappers called one after the other.
SpecDB == Init /\ [][NextDB]_vars

----------------------------------------------------------------------------
(* What a completed call shows. A call is "done" in the state that follows
   its last step, with its result in d and err, the TATs its source read
   returned in tats, the clock value of its kernel evaluation in evalNow, the
   number of Set and BatchSet calls it issued in sets, and (for calls that do
   not overlap with another) the store as it found it in store0. *)

DoneCall(p, op) == calls[p].pc = "done" /\ calls[p].op = op

\* The call got as far as evaluating the kernel.
Evaluated(c) == c.read /\ c.evalNow /= ZeroTime

Enabled(bucket) == getLimit(bucket.name, bucket.key).err = "nil"

LimitOf(bucket) == getLimit(bucket.name, bucket.key).limit

\* The indices of the buckets of call c whose limit is configured.
EnabledIdx(c) == {i \in 1..Len(c.buckets) : Enabled(c.buckets[i])}

\* The kernel's spend decision for bucket i of call c, a missing TAT being
\* taken as the clock value.
SpendDecisionOf(c, i) ==
    LET bucket == c.buckets[i]
    IN  maybeSpend(c.evalNow, LimitOf(bucket),
                   IF bucket.key \in DOMAIN c.tats THEN c.tats[bucket.key] ELSE c.evalNow,
                   bucket.cost)

\* C1: BatchSpend is all-or-nothing: when the kernel denies at least one
\* evaluated bucket of the batch, BatchSpend issues no BatchSet and the store
\* is, for every key, what it was before the call.
C1_BatchSpendAllOrNothing ==
    \A p \in Procs :
        LET c == calls[p]
        IN  (/\ DoneCall(p, "BatchSpend")
             /\ Evaluated(c)
             /\ \E i \in EnabledIdx(c) : ~SpendDecisionOf(c, i).Allowed)
            => (c.sets = 0 /\ store = c.store0)

\* A batch of an existing bucket that is denied, and of a missing bucket that
\* would have been allowed on its own, has returned.
C1_Witness ==
    \E p \in Procs :
        LET c == calls[p]
        IN  /\ DoneCall(p, "BatchSpend")
            /\ Evaluated(c)
            /\ \E i, j \in EnabledIdx(c) :
                  /\ ~SpendDecisionOf(c, i).Allowed
                  /\ c.buckets[i].key \in DOMAIN c.tats
                  /\ SpendDecisionOf(c, j).Allowed
                  /\ c.buckets[j].key \notin DOMAIN c.tats

\* C2: denial non-mutation: a Spend on a bucket with a stored TAT that the
\* kernel denies issues no Set and leaves the store, for every key, as it was.
C2_DeniedSpendWritesNothing ==
    \A p \in Procs :
        LET c == calls[p]
        IN  (/\ DoneCall(p, "Spend")
             /\ Evaluated(c)
             /\ c.buckets[1].key \in DOMAIN c.tats
             /\ ~SpendDecisionOf(c, 1).Allowed)
            => (c.sets = 0 /\ store = c.store0 /\ c.err = "nil" /\ ~c.d.Allowed)

\* A Spend on an existing bucket has been denied, another key being stored too.
C2_Witness ==
    \E p \in Procs :
        LET c == calls[p]
        IN  /\ DoneCall(p, "Spend")
            /\ Evaluated(c)
            /\ c.buckets[1].key \in DOMAIN c.tats
            /\ ~c.d.nil /\ ~c.d.Allowed
            /\ Cardinality(DOMAIN store) = 2

\* C3: Check is pure: it issues no Set, BatchSet or Delete and leaves the
\* store as it was, a missing bucket staying missing; and a Check that repeats
\* the last returned Check at the same clock value, nothing having happened in
\* between, returns the same Decision.
C3_CheckIsPure ==
    \A p \in Procs :
        LET c == calls[p]
        IN  DoneCall(p, "Check")
            => /\ c.sets = 0 /\ c.dels = 0
               /\ store = c.store0
               /\ (~c.prev.nil /\ c.err = "nil" /\ c.prevNow = c.evalNow) => c.d = c.prev

\* A Check of a missing bucket, allowed by the kernel, has been repeated.
C3_Witness ==
    \E p \in Procs :
        LET c == calls[p]
        IN  /\ DoneCall(p, "Check")
            /\ Evaluated(c)
            /\ c.buckets[1].key \notin DOMAIN c.tats
            /\ c.buckets[1].cost > 0
            /\ c.d.Allowed
            /\ ~c.prev.nil /\ c.prevNow = c.evalNow

\* The largest burst among the configured limits of the buckets of call c;
\* the largest configured burst when none of them has a configured limit.
BurstFor(c) ==
    IF EnabledIdx(c) = {} THEN MaxBurst
    ELSE LET bursts == {LimitOf(c.buckets[i]).Burst : i \in EnabledIdx(c)}
         IN  CHOOSE b \in bursts : \A x \in bursts : x <= b

\* C4: capacity bound: every Decision returned without error has
\* 0 <= remaining <= burst, the consolidated Decision of a batch whose buckets
\* were all skipped included.
C4_CapacityBound ==
    \A p \in Procs :
        LET c == calls[p]
        IN  (c.pc = "done" /\ c.err = "nil" /\ ~c.d.nil)
            => (0 <= c.d.Remaining /\ c.d.Remaining <= BurstFor(c))

\* The limit configured for key k: its override, else the default of its name.
LimitOfKey(k) ==
    IF k \in DOMAIN overrides THEN overrides[k]
    ELSE defaults[(CHOOSE b \in Buckets : b.key = k).name]

\* The kernel's refund decision for bucket i of call c.
RefundDecisionOf(c, i) ==
    LET bucket == c.buckets[i]
    IN  maybeRefund(c.evalNow, LimitOf(bucket), c.tats[bucket.key], bucket.cost)

\* The new TATs the kernel computed in call c, each with the key it is for.
KernelTATs(c) ==
    IF c.op \in {"Check", "Spend", "BatchSpend"}
    THEN {<<c.buckets[i].key, SpendDecisionOf(c, i).newTAT>> : i \in EnabledIdx(c)}
    ELSE IF c.op \in {"Refund", "BatchRefund"}
    THEN {<<c.buckets[i].key, RefundDecisionOf(c, i).newTAT>> :
             i \in {j \in EnabledIdx(c) : c.buckets[j].key \in DOMAIN c.tats}}
    ELSE {}

\* C5: TAT bound: in every reachable state, calls overlapping or not, each
\* stored TAT is at most now + burst * emission_interval for the limit of its
\* key, and so is, against the clock value of its evaluation, every new TAT
\* the kernel computed and every TAT a call is about to write.
C5_TATBound ==
    /\ \A k \in DOMAIN store : store[k] <= now + burstOffset(LimitOfKey(k))
    /\ \A p \in Procs :
          LET c == calls[p]
          IN  Evaluated(c)
              => /\ \A kt \in KernelTATs(c) : kt[2] <= c.evalNow + burstOffset(LimitOfKey(kt[1]))
                 /\ \A k \in DOMAIN c.newTATs :
                       c.newTATs[k] <= c.evalNow + burstOffset(LimitOfKey(k))

\* Two calls overlap, both past their kernel evaluation, one having written,
\* and the stored TAT is as far in the future as the bound lets it be.
C5_Witness ==
    /\ \E k \in DOMAIN store : store[k] = now + burstOffset(LimitOfKey(k))
    /\ \E p, q \in Procs :
          /\ p /= q
          /\ calls[p].pc = "done" /\ calls[p].sets = 1 /\ calls[p].err = "nil"
          /\ calls[q].pc = "set" /\ calls[q].op = "Spend"

\* C6: first spend initializes: a Spend (0 < cost <= burst) that finds no
\* stored TAT issues its Set whatever the decision and, the Set succeeding, is
\* allowed, leaves TAT = now + cost * emission_interval stored for the key and
\* returns remaining = burst - cost; it fails only when the Set fails.
C6_FirstSpendInitializes ==
    \A p \in Procs :
        LET c      == calls[p]
            bucket == c.buckets[1]
            rl     == LimitOf(bucket)
        IN  (DoneCall(p, "Spend") /\ c.read /\ bucket.key \notin DOMAIN c.tats)
            => /\ c.sets = 1
               /\ c.err \in {"nil", "SourceError"}
               /\ c.err = "nil" =>
                     /\ c.d.Allowed
                     /\ bucket.key \in DOMAIN store
                     /\ store[bucket.key] = c.evalNow + bucket.cost * emissionInterval(rl)
                     /\ c.d.Remaining = rl.Burst - bucket.cost

\* A first Spend of the whole burst has returned its decision.
C6_Witness ==
    \E p \in Procs :
        LET c == calls[p]
        IN  /\ DoneCall(p, "Spend") /\ c.read /\ c.err = "nil"
            /\ c.buckets[1].key \notin DOMAIN c.tats
            /\ c.buckets[1].cost = LimitOf(c.buckets[1]).Burst
            /\ c.evalNow > 0

\* C7: spend admission rule: a Spend of cost c (0 < c <= burst) that finds the
\* stored TAT T and is evaluated at clock value now is allowed exactly when
\* max(T, now) + c * emission_interval <= now + burst * emission_interval;
\* when allowed, the store then holds max(T, now) + c * emission_interval for
\* the key and remaining is
\* floor((now + burst * emission_interval - new_TAT) / emission_interval).
C7_SpendAdmission ==
    \A p \in Procs :
        LET c         == calls[p]
            bucket    == c.buckets[1]
            rl        == LimitOf(bucket)
            T         == c.tats[bucket.key]
            candidate == Max2(T, c.evalNow) + bucket.cost * emissionInterval(rl)
            threshold == c.evalNow + rl.Burst * emissionInterval(rl)
        IN  (DoneCall(p, "Spend") /\ Evaluated(c) /\ bucket.key \in DOMAIN c.tats /\ c.err = "nil")
            => /\ c.d.Allowed <=> candidate <= threshold
               /\ c.d.Allowed =>
                     /\ store[bucket.key] = candidate
                     /\ c.d.Remaining = (threshold - c.d.newTAT) \div emissionInterval(rl)

\* A Spend on a partly refilled bucket (stored TAT in the future, clock
\* advanced since the bucket was created) has been allowed.
C7_Witness ==
    \E p \in Procs :
        LET c == calls[p]
        IN  /\ DoneCall(p, "Spend") /\ Evaluated(c) /\ c.err = "nil"
            /\ c.buckets[1].key \in DOMAIN c.tats
            /\ c.tats[c.buckets[1].key] > c.evalNow
            /\ c.evalNow > 0
            /\ c.d.Allowed

SetMin(S) == CHOOSE x \in S : \A y \in S : x <= y

SetMax(S) == CHOOSE x \in S : \A y \in S : y <= x

\* C8: BatchSpend consolidation: the returned Decision is allowed iff every
\* evaluated (non-disabled) bucket's kernel decision is allowed, and, when a
\* bucket was evaluated, its remaining is the minimum and its retry_in,
\* reset_in and new_TAT are the maxima of the per-bucket values, a missing
\* TAT being evaluated as now.
C8_BatchSpendConsolidation ==
    \A p \in Procs :
        LET c  == calls[p]
            E  == EnabledIdx(c)
        IN  (DoneCall(p, "BatchSpend") /\ Evaluated(c) /\ c.err = "nil")
            => /\ c.d.Allowed <=> \A i \in E : SpendDecisionOf(c, i).Allowed
               /\ E /= {} =>
                     /\ c.d.Remaining = SetMin({SpendDecisionOf(c, i).Remaining : i \in E})
                     /\ c.d.RetryIn = SetMax({SpendDecisionOf(c, i).RetryIn : i \in E})
                     /\ c.d.ResetIn = SetMax({SpendDecisionOf(c, i).ResetIn : i \in E})
                     /\ c.d.newTAT = SetMax({SpendDecisionOf(c, i).newTAT : i \in E})

\* A denied batch of two evaluated buckets whose decisions differ in
\* remaining, retry_in and reset_in, the first bucket having the larger
\* retry_in and the smaller remaining, has returned.
C8_Witness ==
    \E p \in Procs :
        LET c == calls[p]
        IN  /\ DoneCall(p, "BatchSpend") /\ Evaluated(c) /\ c.err = "nil"
            /\ Len(c.buckets) = 2 /\ EnabledIdx(c) = {1, 2}
            /\ ~c.d.Allowed
            /\ SpendDecisionOf(c, 1).Remaining < SpendDecisionOf(c, 2).Remaining
            /\ SpendDecisionOf(c, 1).RetryIn > SpendDecisionOf(c, 2).RetryIn
            /\ SpendDecisionOf(c, 1).ResetIn /= SpendDecisionOf(c, 2).ResetIn

\* C9: BatchRefund is permissive: its Decision is allowed iff the refund of at
\* least one bucket was allowed; it then writes, in one BatchSet, the new TAT
\* of every key with an allowed refund (that of the key's last bucket in the
\* batch) and leaves every other key as it was; with no allowed refund it
\* writes nothing.
C9_BatchRefundPermissive ==
    \A p \in Procs :
        LET c  == calls[p]
            A  == {i \in EnabledIdx(c) :
                      /\ c.buckets[i].key \in DOMAIN c.tats
                      /\ RefundDecisionOf(c, i).Allowed}
            LastOf(k) == SetMax({i \in A : c.buckets[i].key = k})
        IN  (DoneCall(p, "BatchRefund") /\ Evaluated(c) /\ c.err = "nil")
            => /\ c.d.Allowed <=> A /= {}
               /\ c.sets = (IF A /= {} THEN 1 ELSE 0)
               /\ DOMAIN store = DOMAIN c.store0
               /\ \A k \in DOMAIN store :
                     store[k] = IF \E i \in A : c.buckets[i].key = k
                                THEN RefundDecisionOf(c, LastOf(k)).newTAT
                                ELSE c.store0[k]

\* A batch of a refundable bucket and of a missing one has returned, a third
\* key being stored.
C9_Witness ==
    \E p \in Procs :
        LET c == calls[p]
        IN  /\ DoneCall(p, "BatchRefund") /\ Evaluated(c) /\ c.err = "nil"
            /\ c.d.Allowed
            /\ \E i, j \in EnabledIdx(c) :
                  /\ c.buckets[i].key \in DOMAIN c.tats
                  /\ c.buckets[j].key \notin DOMAIN c.tats
                  /\ store[c.buckets[i].key] /= c.store0[c.buckets[i].key]

\* C10: Refund on a missing bucket: when the key has no stored TAT, Refund
\* returns a denied Decision and no error, and writes nothing.
C10_RefundOnMissingBucket ==
    \A p \in Procs :
        LET c == calls[p]
        IN  (DoneCall(p, "Refund") /\ c.read /\ c.buckets[1].key \notin DOMAIN c.tats)
            => (c.err = "nil" /\ ~c.d.nil /\ ~c.d.Allowed /\ c.sets = 0 /\ store = c.store0)

\* C11: Refund cap: a Refund of cost c > 0, of any size, on a bucket with
\* stored TAT T is, no source call failing, evaluated; for T > now it is
\* allowed and the store then holds max(now, T - c * emission_interval) for the
\* key, which is not before now, and the remaining capacity it reports is at
\* most burst; for T <= now it is denied and nothing is written.
C11_RefundCap ==
    \A p \in Procs :
        LET c        == calls[p]
            bucket   == c.buckets[1]
            rl       == LimitOf(bucket)
            T        == c.store0[bucket.key]
            refunded == Max2(c.evalNow, T - bucket.cost * emissionInterval(rl))
        IN  (/\ DoneCall(p, "Refund") /\ bucket.cost > 0 /\ Enabled(bucket)
             /\ bucket.key \in DOMAIN c.store0 /\ ~c.failed)
            => /\ Evaluated(c) /\ c.err = "nil"
               /\ T > c.evalNow =>
                     /\ c.d.Allowed /\ c.sets = 1
                     /\ store = Set(c.store0, bucket.key, refunded)
                     /\ refunded >= c.evalNow
                     /\ c.d.Remaining <= rl.Burst
               /\ T <= c.evalNow =>
                     /\ ~c.d.Allowed /\ c.sets = 0 /\ store = c.store0

\* A Refund of more than the burst has been allowed, the refunded TAT stopping
\* at the clock value; another one, of an elapsed TAT, could be found denied.
C11_Witness ==
    \E p \in Procs :
        LET c      == calls[p]
            bucket == c.buckets[1]
        IN  /\ DoneCall(p, "Refund") /\ Evaluated(c) /\ c.err = "nil"
            /\ bucket.cost > LimitOf(bucket).Burst
            /\ c.d.Allowed
            /\ c.evalNow > 0
            /\ store[bucket.key] = c.evalNow
            /\ c.store0[bucket.key] - bucket.cost * emissionInterval(LimitOf(bucket)) < c.evalNow

\* The operations that return a Decision.
DecisionOps == {"Check", "Spend", "BatchSpend", "Refund", "BatchRefund"}

\* C12: on any error the caller receives no Decision: whenever Check, Spend,
\* BatchSpend, Refund or BatchRefund returns a non-nil error, the Decision it
\* returns is nil.
C12_NoDecisionOnError ==
    \A p \in Procs :
        LET c == calls[p]
        IN  (c.pc = "done" /\ c.op \in DecisionOps /\ c.err /= "nil") => c.d.nil

\* C13: the Limiter never fails open: a call of Check, Spend, BatchSpend,
\* Refund or BatchRefund one of whose source calls failed with an error other
\* than NotFound returns that error, returns no allowed Decision, and issued
\* no source call after the failed one (at most one read, at most one write,
\* no write after a failed read).
C13_NeverFailsOpen ==
    \A p \in Procs :
        LET c == calls[p]
        IN  (c.pc = "done" /\ c.op \in DecisionOps /\ c.failed)
            => /\ c.err = "SourceError"
               /\ c.d.nil \/ ~c.d.Allowed
               /\ c.gets = 1 /\ c.sets <= 1
               /\ ~c.read => c.sets = 0

\* C14: disabled limit: a Check (cost >= 0), Spend or Refund (cost > 0) of a
\* valid name for which neither an override for the key nor a default for the
\* name is configured returns, without error, an allowed Decision whose
\* remaining, retry_in and reset_in are zero, and issues no source call.
C14_DisabledLimit ==
    \A p \in Procs :
        LET c      == calls[p]
            bucket == c.buckets[1]
        IN  (/\ c.pc = "done" /\ c.op \in {"Check", "Spend", "Refund"}
             /\ IF c.op = "Check" THEN bucket.cost >= 0 ELSE bucket.cost > 0
             /\ bucket.name \in ValidNames
             /\ bucket.key \notin DOMAIN overrides
             /\ bucket.name \notin DOMAIN defaults)
            => /\ c.err = "nil" /\ ~c.d.nil
               /\ c.d.Allowed
               /\ c.d.Remaining = 0 /\ c.d.RetryIn = 0 /\ c.d.ResetIn = 0
               /\ c.gets = 0 /\ c.sets = 0 /\ c.dels = 0
               /\ store = c.store0

\* A Spend of more than every burst on a bucket of a disabled limit has
\* returned, other buckets being stored.
C14_Witness ==
    \E p \in Procs :
        LET c == calls[p]
        IN  /\ DoneCall(p, "Spend")
            /\ c.buckets[1].name = DisabledName
            /\ c.buckets[1].cost > MaxBurst
            /\ c.d.Allowed
            /\ Cardinality(DOMAIN store) = 2

\* The cost of some bucket of call c is not one the operation accepts.
InvalidCostIn(c) ==
    \/ c.op = "Check" /\ c.buckets[1].cost < 0
    \/ c.op \in {"Spend", "Refund"} /\ c.buckets[1].cost <= 0
    \/ c.op \in {"BatchSpend", "BatchRefund"} /\ \E i \in 1..Len(c.buckets) : c.buckets[i].cost <= 0

\* C15: cost validation happens before any store access: a Spend or Refund
\* with cost <= 0 and a BatchSpend or BatchRefund with a bucket of cost <= 0
\* return InvalidCost, a Check with cost < 0 returns InvalidCheckCost; they
\* return no Decision, issue no source call and leave the store as it was.
C15_CostValidatedFirst ==
    \A p \in Procs :
        LET c == calls[p]
        IN  (c.pc = "done" /\ InvalidCostIn(c))
            => /\ c.err = (IF c.op = "Check" THEN "ErrInvalidCostForCheck" ELSE "ErrInvalidCost")
               /\ c.d.nil
               /\ c.gets = 0 /\ c.sets = 0 /\ c.dels = 0
               /\ store = c.store0

\* A batch whose second bucket has no cost, the first being a stored bucket
\* with a good cost, has returned.
C15_Witness ==
    \E p \in Procs :
        LET c == calls[p]
        IN  /\ c.pc = "done" /\ c.op \in {"BatchSpend", "BatchRefund"}
            /\ Len(c.buckets) = 2
            /\ c.buckets[1].cost > 0 /\ c.buckets[1].key \in DOMAIN store
            /\ c.buckets[2].cost <= 0
            /\ c.err = "ErrInvalidCost"

\* C16: a BatchSpend or BatchRefund of zero buckets returns the EmptyBatch
\* error and no Decision, and issues no source call.
C16_EmptyBatch ==
    \A p \in Procs :
        LET c == calls[p]
        IN  (c.pc = "done" /\ c.op \in {"BatchSpend", "BatchRefund"} /\ Len(c.buckets) = 0)
            => /\ c.err = "errZeroBucketsInBatch"
               /\ c.d.nil
               /\ c.gets = 0 /\ c.sets = 0 /\ c.dels = 0
               /\ store = c.store0

\* A BatchRefund of zero buckets has returned, buckets being stored.
C16_Witness ==
    \E p \in Procs :
        /\ DoneCall(p, "BatchRefund")
        /\ calls[p].buckets = <<>>
        /\ calls[p].err = "errZeroBucketsInBatch"
        /\ store /= EmptyMap

\* C17: a Check or Spend on an enabled limit with cost > burst returns
\* CostOverLimit and no Decision without reading or writing the source,
\* whatever TAT is stored for the key.
C17_CostOverLimit ==
    \A p \in Procs :
        LET c      == calls[p]
            bucket == c.buckets[1]
        IN  (/\ c.pc = "done" /\ c.op \in {"Check", "Spend"}
             /\ Enabled(bucket)
             /\ bucket.cost > LimitOfKey(bucket.key).Burst)
            => /\ c.err = "ErrInvalidCostOverLimit"
               /\ c.d.nil
               /\ c.gets = 0 /\ c.sets = 0 /\ c.dels = 0
               /\ store = c.store0

\* A Spend of more than the burst on a stored bucket has returned.
C17_Witness ==
    \E p \in Procs :
        LET c == calls[p]
        IN  /\ DoneCall(p, "Spend")
            /\ Enabled(c.buckets[1])
            /\ c.buckets[1].cost > LimitOfKey(c.buckets[1].key).Burst
            /\ c.buckets[1].key \in DOMAIN store
            /\ c.err = "ErrInvalidCostOverLimit"

\* C18: the spend kernel is never invoked with cost > burst: in every Check,
\* Spend and BatchSpend that got as far as evaluating the kernel, each bucket
\* the kernel was evaluated for has a cost of at most the burst of its
\* resolved limit.
C18_KernelCostWithinBurst ==
    \A p \in Procs :
        LET c == calls[p]
        IN  (c.op \in {"Check", "Spend", "BatchSpend"} /\ Evaluated(c))
            => \A i \in EnabledIdx(c) : c.buckets[i].cost <= LimitOf(c.buckets[i]).Burst

\* C19: limit resolution: what getLimit(name, key) returned to a Check, Spend
\* or Refund that got past its cost validation is, for a valid name, the
\* override of the key when the key is non-empty and has one (whatever the
\* defaults hold), marked as an override; otherwise the default of the name
\* when it has one; otherwise Disabled; and, for an invalid name, the error of
\* an invalid name (not Disabled), which the call returns with no Decision,
\* even when the key has an override.
C19_LimitResolution ==
    \A p \in Procs :
        LET c      == calls[p]
            bucket == c.buckets[1]
        IN  (c.op \in {"Check", "Spend", "Refund"} /\ ~InvalidCostIn(c))
            => /\ (bucket.name \in ValidNames /\ bucket.key /= "" /\ bucket.key \in DOMAIN overrides)
                     => /\ c.gl.err = "nil"
                        /\ c.gl.limit = overrides[bucket.key]
                        /\ c.gl.limit.isOverride
               /\ (/\ bucket.name \in ValidNames
                   /\ ~(bucket.key /= "" /\ bucket.key \in DOMAIN overrides)
                   /\ bucket.name \in DOMAIN defaults)
                     => c.gl.err = "nil" /\ c.gl.limit = defaults[bucket.name]
               /\ (/\ bucket.name \in ValidNames
                   /\ ~(bucket.key /= "" /\ bucket.key \in DOMAIN overrides)
                   /\ bucket.name \notin DOMAIN defaults)
                     => c.gl.err = "errLimitDisabled"
               /\ bucket.name \notin ValidNames
                     => /\ c.gl.err = "ErrInvalidName"
                        /\ c.pc = "done" /\ c.err = "ErrInvalidName" /\ c.d.nil
                        /\ c.gets = 0 /\ c.sets = 0

\* A Spend of an invalid name on a key that has an override, the key being
\* stored, has returned.
C19_Witness ==
    \E p \in Procs :
        LET c == calls[p]
        IN  /\ DoneCall(p, "Spend")
            /\ c.buckets[1].name \notin ValidNames
            /\ c.buckets[1].key \in DOMAIN overrides
            /\ c.buckets[1].key \in DOMAIN store
            /\ c.gl.err = "ErrInvalidName"

\* The TATs call c, having evaluated the kernel, is to write: for Spend that
\* of its decision when the bucket was missing or the decision is allowed,
\* for Refund that of an allowed decision, for BatchSpend those of all its
\* evaluated buckets when all are allowed, for BatchRefund those of the
\* allowed ones.
CommittedKeys(c) ==
    LET E == EnabledIdx(c)
        R == {i \in E : c.buckets[i].key \in DOMAIN c.tats}
    IN  IF c.op = "Spend"
        THEN {c.buckets[i].key : i \in {j \in E : j \notin R \/ SpendDecisionOf(c, j).Allowed}}
        ELSE IF c.op = "Refund"
        THEN {c.buckets[i].key : i \in {j \in R : RefundDecisionOf(c, j).Allowed}}
        ELSE IF c.op = "BatchSpend"
        THEN IF \A j \in E : SpendDecisionOf(c, j).Allowed
             THEN {c.buckets[i].key : i \in E} ELSE {}
        ELSE IF c.op = "BatchRefund"
        THEN {c.buckets[i].key : i \in {j \in R : RefundDecisionOf(c, j).Allowed}}
        ELSE {}

\* C20: cancellation does not abort a committed write: a Spend, BatchSpend,
\* Refund or BatchRefund whose caller's context was canceled after the call
\* started, before its read or between its read and its write, never returns
\* the error of a canceled context; when it has evaluated the kernel and has
\* TATs to write it issues its Set or BatchSet, and that write succeeding the
\* store holds those TATs, as with no cancellation.
C20_CancelKeepsWrite ==
    \A p \in Procs :
        LET c == calls[p]
        IN  (c.op \in {"Spend", "BatchSpend", "Refund", "BatchRefund"} /\ c.canceled)
            => /\ c.err /= "context.Canceled"
               /\ (c.pc = "done" /\ Evaluated(c) /\ CommittedKeys(c) /= {})
                     => /\ c.sets = 1
                        /\ DOMAIN c.newTATs = CommittedKeys(c)
                        /\ c.err = "nil" => \A k \in CommittedKeys(c) :
                                                k \in DOMAIN store /\ store[k] = c.newTATs[k]

\* A Spend on a stored bucket whose caller's context was canceled between the
\* read and the write has been allowed and has written a TAT other than the
\* one it read.
C20_Witness ==
    \E p \in Procs :
        LET c   == calls[p]
            key == c.buckets[1].key
        IN  /\ DoneCall(p, "Spend") /\ c.canceled /\ c.cancelAt = "eval"
            /\ c.err = "nil" /\ c.d.Allowed /\ c.sets = 1
            /\ key \in DOMAIN c.tats
            /\ store[key] /= c.tats[key]

\* C21: deadline preservation: the context a call passes to its source calls
\* carries the deadline of the caller's context, so that a source call made
\* after that deadline has passed fails with the deadline's error and is not
\* applied: a call whose deadline passed before its read or delete returns
\* that error with the store as it was, and so does a call whose deadline
\* passed between its read and the write it went on to issue.
C21_DeadlinePreserved ==
    \A p \in Procs :
        LET c == calls[p]
        IN  /\ c.pc \in {"get", "set", "del"} => CtxHasDeadline(c)
            /\ (/\ c.pc = "done" /\ c.expired
                /\ c.cancelAt \in {"get", "del"} \/ c.sets > 0)
               => (c.err = "context.DeadlineExceeded" /\ store = c.store0)

\* C22: lost update, last write wins: a Spend that returns allowed has left
\* in the store, for its key, the TAT it computed from the TAT it read,
\* max(t, now) + c * emission_interval, whatever other calls wrote to the key
\* between its read and its Set (no compare-and-swap); it does not account
\* for what they spent.
C22_LastWriteWins ==
    \A p \in Procs :
        LET c      == calls[p]
            bucket == c.buckets[1]
            rl     == LimitOf(bucket)
            t      == IF bucket.key \in DOMAIN c.tats THEN c.tats[bucket.key] ELSE c.evalNow
        IN  (DoneCall(p, "Spend") /\ Evaluated(c) /\ c.err = "nil" /\ c.d.Allowed)
            => /\ c.sets = 1
               /\ bucket.key \in DOMAIN store
               /\ store[bucket.key] = Max2(t, c.evalNow) + bucket.cost * emissionInterval(rl)

\* Two Spends of cost c raced on a key holding TAT t: this one read t, the
\* other one's Set (of max(t, now) + c * emission_interval, hence allowed)
\* was served before this one's, and this one, allowed too, has overwritten
\* it with a TAT that accounts for one cost only.
C22_Witness ==
    \E p \in Procs :
        LET c      == calls[p]
            bucket == c.buckets[1]
            inc    == bucket.cost * emissionInterval(LimitOf(bucket))
        IN  /\ conc
            /\ DoneCall(p, "Spend") /\ Evaluated(c) /\ c.err = "nil" /\ c.d.Allowed
            /\ bucket.key \in DOMAIN c.tats /\ bucket.key \in DOMAIN c.pre
            /\ c.tats[bucket.key] >= c.evalNow
            /\ c.pre[bucket.key] = c.tats[bucket.key] + inc
            /\ store[bucket.key] = c.tats[bucket.key] + inc
            /\ store[bucket.key] < c.tats[bucket.key] + 2 * inc

\* C23: Refund never creates a bucket: a key that is absent from the store
\* when the Set of a Refund or the BatchSet of a BatchRefund is served is
\* absent after it, whatever other calls did to the key since the refund
\* read it.
C23_RefundNeverCreates ==
    \A p \in Procs :
        LET c == calls[p]
        IN  (c.pc = "done" /\ c.op \in {"Refund", "BatchRefund"} /\ c.sets > 0 /\ c.err = "nil")
            => \A k \in Keys : k \notin DOMAIN c.pre => k \notin DOMAIN store

\* C24: Reset is an unconditional, idempotent delete: a Reset the source
\* serves returns no error whether or not the key was stored, leaves the key
\* absent and every other key as it was; a Reset that follows a Reset of the
\* same key leaves the store as it found it; and the Spend that follows a
\* Reset of its key finds no TAT and gets the kernel's decision for a TAT
\* equal to the clock value, which, when allowed, is stored.
C24_ResetIdempotent ==
    \A p \in Procs :
        LET c == calls[p]
            bucket == c.buckets[1]
        IN  /\ (DoneCall(p, "Reset") /\ ~c.failed)
               => /\ c.err = "nil" /\ c.dels = 1 /\ c.sets = 0
                  /\ bucket.key \notin DOMAIN store
                  /\ \A k \in Keys \ {bucket.key} :
                        /\ k \in DOMAIN store <=> k \in DOMAIN c.store0
                        /\ k \in DOMAIN store => store[k] = c.store0[k]
                  /\ c.afterReset > 0 => store = c.store0
            /\ (DoneCall(p, "Spend") /\ c.afterReset > 0 /\ Evaluated(c) /\ ~c.failed)
               => /\ bucket.key \notin DOMAIN c.tats
                  /\ c.err = "nil"
                  /\ c.d = maybeSpend(c.evalNow, LimitOf(bucket), c.evalNow, bucket.cost)
                  /\ c.d.Allowed
                     => (/\ bucket.key \in DOMAIN store
                         /\ store[bucket.key] = c.evalNow + bucket.cost * emissionInterval(LimitOf(bucket))
                         /\ c.d.Remaining = LimitOf(bucket).Burst - bucket.cost)
                  /\ ~c.d.Allowed => store = c.store0

\* A Spend of the whole burst has been allowed right after two Resets in a
\* row of its key, the first of which removed a stored TAT (the clock has not
\* moved since that TAT was written, and a TAT is never the clock value),
\* another bucket being stored all along.
C24_Witness ==
    \E p \in Procs :
        LET c == calls[p]
        IN  /\ DoneCall(p, "Spend")
            /\ c.afterReset = MaxResets
            /\ c.d.Allowed /\ c.d.Remaining = 0
            /\ Cardinality(DOMAIN c.store0) = 1
            /\ Cardinality(DOMAIN store) = 2

\* C25: zero-cost Check: for an enabled limit, a Check with cost 0 that the
\* source serves is allowed with retry_in 0 and remaining equal to
\* floor((now + burst * emission_interval - max(stored TAT, now)) /
\* emission_interval), a missing TAT being taken as now; this includes a
\* remaining of 0.
C25_ZeroCostCheck ==
    \A p \in Procs :
        LET c == calls[p]
            bucket == c.buckets[1]
            rl == LimitOf(bucket)
            T  == IF bucket.key \in DOMAIN c.store0 THEN c.store0[bucket.key] ELSE c.evalNow
        IN  (DoneCall(p, "Check") /\ bucket.cost = 0 /\ Enabled(bucket) /\ ~c.failed)
            => /\ c.err = "nil" /\ ~c.d.nil
               /\ c.d.Allowed
               /\ c.d.RetryIn = 0
               /\ c.d.Remaining =
                     (c.evalNow + rl.Burst * emissionInterval(rl) - Max2(T, c.evalNow))
                        \div emissionInterval(rl)

\* A zero-cost Check of a bucket without capacity has been allowed.
C25_Witness ==
    \E p \in Procs :
        LET c == calls[p]
        IN  /\ DoneCall(p, "Check") /\ c.buckets[1].cost = 0 /\ Enabled(c.buckets[1])
            /\ c.buckets[1].key \in DOMAIN c.store0
            /\ c.d.Allowed /\ c.d.Remaining = 0

\* The kernel's decision for the Spend of bucket, were it issued when the
\* clock reads t on the store as it is.
SpendAt(t, bucket) ==
    maybeSpend(t, LimitOf(bucket),
               IF bucket.key \in DOMAIN store THEN store[bucket.key] ELSE t,
               bucket.cost)

\* What C26 says of the retry_in r of a Spend that has been denied: the same
\* Spend is allowed at now + r and denied at every time before, the store
\* being as the denied Spend left it.
RetryInSoundAndMinimal(c) ==
    (c.op = "Spend" /\ Evaluated(c) /\ ~c.d.Allowed /\ c.d.RetryIn > 0)
    => /\ SpendAt(c.evalNow + c.d.RetryIn, c.buckets[1]).Allowed
       /\ \A t \in c.evalNow .. (c.evalNow + c.d.RetryIn - 1) : ~SpendAt(t, c.buckets[1]).Allowed

\* C26 as stated: in every Decision returned without error retry_in is 0
\* exactly when the Decision is allowed, and the retry_in of a denied Spend
\* is sound and minimal.
C26_RetryInZeroIffAllowed ==
    \A p \in Procs :
        LET c == calls[p]
        IN  (c.pc = "done" /\ c.err = "nil" /\ ~c.d.nil)
            => /\ c.d.RetryIn = 0 <=> c.d.Allowed
               /\ RetryInSoundAndMinimal(c)

\* C26, amended: in every Decision that Check, Spend and BatchSpend return
\* without error retry_in is 0 exactly when the Decision is allowed; a
\* Refund or BatchRefund that refunds nothing returns a Decision that is not
\* allowed with retry_in 0; and the retry_in r > 0 of a denied Spend of cost
\* c <= burst is sound and minimal: the same Spend is allowed at now + r and
\* denied at every time before, no other operation having touched the bucket.
C26_RetryInSoundMinimal ==
    \A p \in Procs :
        LET c == calls[p]
        IN  (c.pc = "done" /\ c.err = "nil" /\ ~c.d.nil)
            => /\ c.op \in {"Check", "Spend", "BatchSpend"} => (c.d.RetryIn = 0 <=> c.d.Allowed)
               /\ c.op \in {"Refund", "BatchRefund"} => c.d.RetryIn = 0
               /\ RetryInSoundAndMinimal(c)

\* A Spend has been denied with a retry_in of two clock steps.
C26_Witness ==
    \E p \in Procs :
        LET c == calls[p]
        IN  /\ DoneCall(p, "Spend") /\ Evaluated(c) /\ c.err = "nil"
            /\ ~c.d.Allowed /\ c.d.RetryIn = 2
            /\ c.buckets[1].cost <= LimitOf(c.buckets[1]).Burst

\* The remaining a zero-cost Check of bucket reports when the clock reads t,
\* on the store as it is.
CheckRemainingAt(t, bucket) ==
    maybeSpend(t, LimitOf(bucket),
               IF bucket.key \in DOMAIN store THEN store[bucket.key] ELSE t,
               0).Remaining

\* How far past now + reset_in the zero-cost Check is tried.
MaxLater == 2

\* C27: reset_in is sound: the reset_in s of the Decision a Spend or Refund
\* returns from the kernel is never negative, and on the store as the call
\* left it a zero-cost Check at now + s, or later, reports remaining = burst.
C27_ResetInSound ==
    \A p \in Procs :
        LET c == calls[p]
        IN  (c.pc = "done" /\ c.op \in {"Spend", "Refund"} /\ Evaluated(c) /\ c.err = "nil")
            => /\ ~c.d.nil
               /\ c.d.ResetIn >= 0
               /\ \A later \in 0..MaxLater :
                     CheckRemainingAt(c.evalNow + c.d.ResetIn + later, c.buckets[1])
                        = LimitOf(c.buckets[1]).Burst

\* A Refund has given back part of what was spent: the bucket it leaves is
\* full only after some time.
C27_Witness ==
    \E p \in Procs :
        LET c == calls[p]
        IN  /\ DoneCall(p, "Refund") /\ Evaluated(c) /\ c.err = "nil"
            /\ c.d.Allowed /\ c.d.ResetIn > 0 /\ c.sets = 1
            /\ CheckRemainingAt(c.evalNow, c.buckets[1]) < LimitOf(c.buckets[1]).Burst

\* The sorted sequence of the distinct limit names of the buckets of call c
\* that are evaluated (those whose limit is configured).
EvaluatedNames(c) ==
    SortNames(SelectSeq(NameOrder,
                        LAMBDA n : \E i \in EnabledIdx(c) : c.buckets[i].name = n), 1)

\* C28: spend latency metric labels: each Spend and BatchSpend that reaches
\* the source records exactly one observation; its decision label is
\* "allowed" when the call returns an allowed Decision and "denied"
\* otherwise, a source error included; for BatchSpend its limit label is the
\* sorted set of the distinct names of the evaluated buckets.
C28_SpendLatencyLabels ==
    \A p \in Procs :
        LET c == calls[p]
        IN  (c.pc = "done" /\ c.op \in {"Spend", "BatchSpend"} /\ c.gets > 0)
            => /\ Len(c.lat) = 1
               /\ c.lat[1].decision = IF c.err = "nil" /\ ~c.d.nil /\ c.d.Allowed
                                      THEN "allowed" ELSE "denied"
               /\ c.op = "Spend" => c.lat[1].limit = <<c.buckets[1].name>>
               /\ c.op = "BatchSpend" => c.lat[1].limit = EvaluatedNames(c)

\* C29: override utilization gauge: every Spend whose limit is an override
\* and that evaluates the kernel, on a bucket that existed or on one this
\* Spend initializes, allowed or denied, sets the gauge of (limit name,
\* bucket key) once, to (burst - remaining) / burst, a value in [0, 1].
C29_OverrideUsageGauge ==
    \A p \in Procs :
        LET c == calls[p]
            bucket == c.buckets[1]
            d == SpendDecisionOf(c, 1)
        IN  (DoneCall(p, "Spend") /\ Evaluated(c) /\ LimitOf(bucket).isOverride)
            => /\ c.gauge = <<[limit |-> bucket.name, bucket_key |-> bucket.key,
                               num |-> LimitOf(bucket).Burst - d.Remaining,
                               den |-> LimitOf(bucket).Burst]>>
               /\ 0 <= c.gauge[1].num /\ c.gauge[1].num <= c.gauge[1].den

\* C30: batch_get partial success: the BatchGet of a batch returns an error,
\* and no map, exactly when the Get of at least one key of the list failed
\* with an error other than not-found; otherwise it returns the map of
\* exactly the keys of the list that exist in the store, each with its stored
\* TAT, the missing keys left out.
C30_BatchGetPartialSuccess ==
    \A p \in Procs :
        LET c == calls[p]
            keys == {c.buckets[i].key : i \in 1..Len(c.buckets)}
        IN  (c.op \in {"BatchSpend", "BatchRefund"} /\ c.gets > 0)
            => /\ c.read <=> c.cmdErrs = {}
               /\ c.read => /\ DOMAIN c.tats = keys \cap DOMAIN c.store0
                            /\ \A k \in DOMAIN c.tats : c.tats[k] = c.store0[k]
               /\ ~c.read => /\ c.tats = EmptyMap
                             /\ c.pc = "done" /\ c.err = "SourceError" /\ c.d.nil
                             /\ store = c.store0

\* The BatchGet of a batch of one key that exists and one that does not has
\* returned the TAT of the first alone.
C30_Witness ==
    \E p \in Procs :
        LET c == calls[p]
        IN  /\ c.op \in {"BatchSpend", "BatchRefund"} /\ c.read
            /\ Len(c.buckets) = 2
            /\ c.buckets[1].key \notin DOMAIN c.store0
            /\ c.buckets[2].key \in DOMAIN c.tats
            /\ c.tats[c.buckets[2].key] = c.store0[c.buckets[2].key]

\* The class of an error as the classification sorts errors: by what the
\* error is or wraps.
ErrClass(err) ==
    IF \E i \in 1..Len(err) : err[i] = "redis.Nil" THEN "notFound"
    ELSE IF \E i \in 1..Len(err) : err[i] = "context.DeadlineExceeded" THEN "deadlineExceeded"
    ELSE IF \E i \in 1..Len(err) : err[i] = "context.Canceled" THEN "canceled"
    ELSE IF \E i \in 1..Len(err) : err[i] = "net.Timeout" THEN "timeout"
    ELSE IF \E i \in 1..Len(err) : err[i] = "redis.Error" THEN "redisError"
    ELSE "failed"

\* C31: source error classification: a call of the source whose Redis
\* command returned an error is observed under the result label of the class
\* of that error: notFound for a missing key, deadlineExceeded for a deadline
\* expiry, canceled for a cancellation by the caller, timeout for a network
\* timeout, redisError for an error returned by the server, failed for
\* anything else.
C31_ErrorClassification ==
    \A p \in Procs :
        LET c == calls[p]
        IN  c.srcErr /= NilErr
            => \E i \in 1..Len(c.results) : c.results[i] = ErrClass(c.srcErr)

\* The total cost granted to key k at the clock values t0..t1.
RECURSIVE SpentIn(_, _, _)
SpentIn(k, t0, t1) ==
    IF t0 > t1 THEN 0 ELSE spent[k][t0] + SpentIn(k, t0 + 1, t1)

\* C32: sequential rate bound: calls not overlapping and no Refund or Reset
\* being applied, the total cost of the allowed Spends and BatchSpends on a
\* key issued in any interval [t0, t1] is at most
\* burst + floor((t1 - t0) / emission_interval) of the key's limit.
C32_SequentialRateBound ==
    \A k \in DOMAIN spent :
        \A t0 \in 0..now : \A t1 \in t0..now :
            SpentIn(k, t0, t1)
               <= LimitOfKey(k).Burst + (t1 - t0) \div emissionInterval(LimitOfKey(k))

\* The remaining a zero-cost Check of bucket reports when the clock reads t,
\* on a store holding the TATs tats.
CheckRemainingOn(tats, t, bucket) ==
    maybeSpend(t, LimitOf(bucket),
               IF bucket.key \in DOMAIN tats THEN tats[bucket.key] ELSE t,
               0).Remaining

\* C33: Spend/Refund round trip: an allowed Spend of cost c followed, with
\* the clock unchanged and no operation in between, by a Refund of the same
\* bucket and cost whose source calls do not fail: the Refund is allowed, the
\* stored TAT afterwards is max(TAT before the Spend, now), now for a bucket
\* the Spend created, and a zero-cost Check reports the remaining it would
\* have reported before the Spend.
C33_SpendRefundRoundTrip ==
    \A p \in Procs :
        LET c      == calls[p]
            bucket == c.buckets[1]
            before == c.afterSpend.tats
        IN  (/\ DoneCall(p, "Refund")
             /\ c.afterSpend.at /= ZeroTime /\ c.afterSpend.at = now
             /\ ~c.failed)
            => /\ c.err = "nil" /\ ~c.d.nil /\ c.d.Allowed
               /\ bucket.key \in DOMAIN store
               /\ store[bucket.key]
                     = Max2(IF bucket.key \in DOMAIN before THEN before[bucket.key] ELSE now,
                            now)
               /\ CheckRemainingAt(now, bucket) = CheckRemainingOn(before, now, bucket)

\* A Refund has given back the cost of the Spend before it, which had found
\* the bucket partly used: the stored TAT is again the one the Spend read,
\* later than now.
C33_Witness ==
    \E p \in Procs :
        LET c      == calls[p]
            bucket == c.buckets[1]
        IN  /\ DoneCall(p, "Refund")
            /\ c.afterSpend.at = now /\ ~c.failed /\ c.err = "nil" /\ c.d.Allowed
            /\ bucket.key \in DOMAIN c.afterSpend.tats
            /\ c.afterSpend.tats[bucket.key] > now
            /\ store[bucket.key] = c.afterSpend.tats[bucket.key]
            /\ c.tats[bucket.key] > store[bucket.key]

\* C34: BatchSpend charges every entry it admits: after a BatchSpend that
\* does not overlap with another call and returns an allowed Decision, the
\* stored TAT of every key of the batch with a configured limit is
\* max(TAT of the key before the call, now) + (the sum of the costs of all
\* the entries of the batch on that key) * emission_interval, two entries of
\* the batch sharing a key included.
C34_BatchChargesEveryEntry ==
    \A p \in Procs :
        LET c == calls[p]
        IN  (/\ DoneCall(p, "BatchSpend")
             /\ Evaluated(c)
             /\ c.err = "nil" /\ ~c.d.nil /\ c.d.Allowed)
            => \A i \in EnabledIdx(c) :
                  LET k   == c.buckets[i].key
                      tat == IF k \in DOMAIN c.tats THEN c.tats[k] ELSE c.evalNow
                  IN  /\ k \in DOMAIN store
                      /\ store[k] = Max2(tat, c.evalNow)
                                      + CostOn(c.buckets, 1, k)
                                          * emissionInterval(LimitOf(c.buckets[i]))

DBMethods == {"Get", "Insert", "Update", "Delete", "Select", "SelectOne", "Query", "Exec"}

\* The operation a method of the wrappers performs, Query returning the rows
\* of a select.
OpName(method) ==
    CASE method = "Get" -> "get"
      [] method = "Insert" -> "insert"
      [] method = "Update" -> "update"
      [] method = "Delete" -> "delete"
      [] method = "Select" -> "select"
      [] method = "SelectOne" -> "select one"
      [] method = "Query" -> "select"
      [] method = "Exec" -> "exec"

\* C35: database error wrapping: Get, Insert, Update, Delete, Select,
\* SelectOne, Query and Exec of WrappedExecutor, WrappedMap and
\* WrappedTransaction return the nil error iff the underlying executor
\* returned nil, and otherwise an ErrDatabaseOp whose Err is the underlying
\* error, so that Unwrap, IsNoRows and IsDuplicate see that error, and whose
\* Op names the operation performed.
C35_DatabaseErrorWrapping ==
    \A p \in Procs :
        LET c == calls[p]
        IN  (c.pc = "done" /\ c.op \in DBMethods)
            => /\ c.ret = NilDBError <=> c.dbErr = NilErr
               /\ c.dbErr /= NilErr
                     => /\ c.ret.Type = "ErrDatabaseOp"
                        /\ Unwrap(c.ret) = c.dbErr
                        /\ IsNoRows(c.ret) <=> IsNoRows(Bare(c.dbErr))
                        /\ IsDuplicate(c.ret) <=> IsDuplicate(Bare(c.dbErr))
                        /\ c.ret.Op = OpName(c.op)

\* An Insert on a WrappedTransaction whose executor failed with a wrapped
\* duplicate-entry error has returned an error that IsDuplicate recognises
\* and IsNoRows does not.
C35_Witness ==
    \E p \in Procs :
        LET c == calls[p]
        IN  /\ c.pc = "done" /\ c.op = "Insert" /\ c.on = "WrappedTransaction"
            /\ c.dbErr = <<"wrap", "mysql.1062">>
            /\ IsDuplicate(c.ret) /\ ~IsNoRows(c.ret)

====
